---- MODULE Spec2Model ----
(***************************************************************************)
(* A model of the Vulkan bloom renderer: the command stream that           *)
(* render_func and bloom record for one frame, the Buffer and Image        *)
(* wrappers around the sub-allocated device memory, and their teardown.    *)
(***************************************************************************)
EXTENDS Integers, Sequences, FiniteSets, TLC

(***************************************************************************)
(* Program constants (src/src/bloom.rs).                                   *)
(***************************************************************************)
BLOOM_MIP_COUNT == 7
MODE_PREFILTER == 0
MODE_DOWNSAMPLE == 1
MODE_UPSAMPLE_FIRST == 2
MODE_UPSAMPLE == 3
MODE_APPLY == 4

(***************************************************************************)
(* Bounds of the model.                                                    *)
(***************************************************************************)
\* number of images the presentation engine gives the swapchain
NumImages == 2
\* frames rendered in one run
MaxFrames == 2

\* largest size requested of Buffer::new
MaxRequestedSize == 66
\* payloads up to this length are enumerated byte by byte
MaxPayload == 2
\* bytes the driver may add to a resource's size in its memory requirements
MaxPadding == 1
\* largest mip level count given to Image::new
MaxMipLevels == 7
\* widths and heights of the extents given to dispach and get_mip_size
MaxExtent == 70
\* physical devices the instance enumerates
MaxDevices == 2
\* queue families of one physical device
MaxFamilies == 2
\* descriptor sets of one DescriptorSet object
MaxSets == 2
\* largest width and height of a window or of an extent
MaxWindow == 2
\* recreations of one graphics pipeline
MaxRecreate == 2
\* graphics pipelines the engine holds
MaxPipelines == 2
\* NewEvents events counted after a Resized event
MaxNewEvents == 3
\* values in a Vec given to PushConstant::new or set_data
MaxVec == 2
\* buffers, and images, alive at once
MaxLive == 2
\* pipelines of the engine window_resized is called on by itself
MaxPipelineList == 4
\* queues of the selected queue family
MaxQueueCount == 5
\* bytes a shader file has after its first word
MaxTailBytes == 4
\* bindings of one descriptor set layout
MaxBindings == 2

\* surface resolutions (width, height) the window may have
Resolutions == { <<1080, 720>>, <<33, 18>> }

VARIABLES
    pc,                  \* position of the frame loop / render_func / bloom
    i,                   \* loop index of the bloom loop being executed
    cmds,                \* commands recorded into the frame's command buffer
    bloom_data,          \* BloomConstant.mode_lod_in_out_bloom
    push,                \* the PushConstant built by bloom: [range, data]
    swapchain_layout,    \* layout each swapchain image is in after cmds
    layout_on_entry,     \* layout of the frame image when bloom was entered
    current_image_save,  \* main's current_image, passed by reference
    current_image,       \* render_func's copy taken before acquisition
    frame,               \* frames completed
    surface_resolution,  \* engine.surface.surface_resolution
    bloom_extent,        \* extent of the three intermediate bloom images
    operands,            \* the five operands of each addressing word built so far
    frame_calls          \* what render_func called outside the command stream, in order

frameVars == << pc, i, cmds, bloom_data, push, swapchain_layout, layout_on_entry,
                current_image_save, current_image, frame, surface_resolution,
                bloom_extent, operands, frame_calls >>

VARIABLES
    debug_assertions,    \* whether the build has cfg(debug_assertions)
    mem,                 \* device memory: (memory object, address) |-> byte written
    blocks,              \* memory blocks the allocator has handed out
    calls,               \* driver and allocator calls made so far, in order
    next_handle,         \* next native handle the driver returns
    next_memory,         \* next dedicated memory object the allocator creates
    buffer,              \* the Buffer under construction, use and teardown
    image,               \* the Image under construction, use and teardown
    rpc,                 \* where the resource's life cycle stands
    requested_size,      \* the size Buffer::new was asked for
    payload,             \* the bytes given to write_to_vram
    readback             \* the bytes read_from_vram returned

resVars == << debug_assertions, mem, blocks, calls, next_handle, next_memory, buffer,
              image, rpc, requested_size, payload, readback >>

\* state of the other engine objects and of single calls of pure functions
VARIABLES
    unit,                \* the function last called on its own, its input and its result
    src_image,           \* the source image of write_from_image, and what was recorded
    descriptor,          \* the DescriptorSet under test and the writes the driver received
    pipeline,            \* the GraphicsPipeline under test
    engine,              \* the VulkanEngine of main
    app,                 \* main: the event loop, its last frame, the values left to drop
    gpu_calls            \* driver calls of the last window_resized, then of the teardown

\* the swapchain and the fences across frames and resizes
VARIABLES
    swapchain,           \* engine.swapchain
    fences,              \* engine.fences: whether signaled, whether a signal is pending
    render,              \* main and render_func: position, image indices, extents
    driver               \* calls of the last Swapchain::recreate, the next handle

swapVars == << swapchain, fences, render, driver >>

\* the mutex of the allocator and the operation the thread is in
VARIABLE allocator

appVars == << engine, app, gpu_calls, swapVars, allocator >>

objVars == << descriptor, pipeline, appVars >>

engineVars == << unit, src_image, objVars >>

vars == << frameVars, resVars, engineVars >>

(***************************************************************************)
(* 32-bit unsigned arithmetic of the addressing word.                      *)
(***************************************************************************)
Pow2(n) == 2 ^ n

\* x << n on u32: the bits shifted past bit 31 are lost
Shl(x, n) == (x % Pow2(32 - n)) * Pow2(n)

RECURSIVE BitOr(_, _)
BitOr(a, b) ==
    IF a = 0 THEN b
    ELSE IF b = 0 THEN a
    ELSE (IF a % 2 = 1 \/ b % 2 = 1 THEN 1 ELSE 0) + 2 * BitOr(a \div 2, b \div 2)

\* a packing on byte boundaries: out << 8 instead of out << 7
PackWordByteAligned(mode, lod, in, out, bloom) ==
    BitOr(BitOr(BitOr(BitOr(Shl(mode, 28), Shl(lod, 21)), Shl(in, 14)), Shl(out, 8)), bloom)

\* mode << 28 | lod << 21 | in << 14 | out << 7 | bloom
PackWord(mode, lod, in, out, bloom) ==
    BitOr(BitOr(BitOr(BitOr(Shl(mode, 28), Shl(lod, 21)), Shl(in, 14)), Shl(out, 7)), bloom)

\* Vec<BloomConstant> viewed as bytes (align_to::<u8>), least significant first
ToBytes(word) ==
    << word % 256, (word \div 256) % 256, (word \div 65536) % 256, (word \div 16777216) % 256 >>

\* the u32 the shader reads back from the four bytes of the push-constant range
FromBytes(bytes) ==
    bytes[1] + 256 * bytes[2] + 65536 * bytes[3] + 16777216 * bytes[4]

\* the shader's view of the word: 4/7/7/7/7 bits, most significant first
Decode(word) ==
    [ mode  |-> (word \div Pow2(28)) % 16,
      lod   |-> (word \div Pow2(21)) % 128,
      in    |-> (word \div Pow2(14)) % 128,
      out   |-> (word \div Pow2(7)) % 128,
      bloom |-> word % 128 ]

(***************************************************************************)
(* PushConstant (src/src/vulkan_engine/push_constant.rs).                  *)
(***************************************************************************)
\* data.align_to::<u8>().1 of a Vec of 4-byte values: the bytes of each, in order
RECURSIVE AlignToU8(_)
AlignToU8(data) ==
    IF data = << >> THEN << >> ELSE ToBytes(Head(data)) \o AlignToU8(Tail(data))

\* PushConstant::new for a Vec of any length
PushConstantOf(offset, size, stage_flags, data) ==
    [ range |-> [ offset |-> offset, size |-> size, stage_flags |-> stage_flags ],
      data  |-> AlignToU8(data) ]

\* a set_data that adds the new bytes after the ones held
set_data_appends(p, data) == [ p EXCEPT !.data = @ \o AlignToU8(data) ]

\* PushConstant::set_data for a Vec of any length
set_data(p, data) == [ p EXCEPT !.data = AlignToU8(data) ]

\* PushConstant::new and set_data as bloom calls them, with vec![bloom_data.clone()]
PushConstantNew(offset, size, stage_flags, word) ==
    PushConstantOf(offset, size, stage_flags, << word >>)

SetData(p, word) == set_data(p, << word >>)

(***************************************************************************)
(* Commands of the stream.                                                 *)
(***************************************************************************)
CmdPushConstants(p) ==
    [ op |-> "push_constants", stage |-> "COMPUTE", offset |-> 0, data |-> p.data ]

CmdBindPipeline(point) == [ op |-> "bind_pipeline", point |-> point ]

CmdBindDescriptorSets(point, set) ==
    [ op |-> "bind_descriptor_sets", point |-> point, set |-> set ]

\* the vk::MemoryBarrier every bloom dispatch is followed by
MemoryBarrier ==
    [ src_access_mask |-> {"MEMORY_READ"}, dst_access_mask |-> {"MEMORY_WRITE"} ]

\* a halving that rounds up instead of down
RECURSIVE HalveRoundingUp(_, _)
HalveRoundingUp(x, n) == IF n = 0 THEN x ELSE HalveRoundingUp((x + 1) \div 2, n - 1)

\* get_mip_size: width and height halved current_mip times
RECURSIVE Halve(_, _)
Halve(x, n) == IF n = 0 THEN x ELSE Halve(x \div 2, n - 1)

get_mip_size(current_mip, extent) ==
    << Halve(extent[1], current_mip), Halve(extent[2], current_mip) >>

\* a dispach whose grid is the truncated quotient, without the extra group
dispachTruncated(image_size, memory_barrier) ==
    << [ op |-> "dispatch", x |-> image_size[1] \div 8, y |-> image_size[2] \div 4, z |-> 1 ],
       [ op |-> "pipeline_barrier",
         src_stage |-> "COMPUTE_SHADER", dst_stage |-> "COMPUTE_SHADER",
         memory |-> << memory_barrier >>, image |-> << >> ] >>

\* a dispach that records the cmd_dispatch alone
dispachNoBarrier(image_size, memory_barrier) ==
    LET group_x == (image_size[1] \div 8) + (IF image_size[1] % 8 # 0 THEN 1 ELSE 0)
        group_y == (image_size[2] \div 4) + (IF image_size[2] % 4 # 0 THEN 1 ELSE 0)
    IN  << [ op |-> "dispatch", x |-> group_x, y |-> group_y, z |-> 1 ] >>

\* dispach: one cmd_dispatch followed by one cmd_pipeline_barrier
dispach(image_size, memory_barrier) ==
    LET group_x == (image_size[1] \div 8) + (IF image_size[1] % 8 # 0 THEN 1 ELSE 0)
        group_y == (image_size[2] \div 4) + (IF image_size[2] % 4 # 0 THEN 1 ELSE 0)
    IN  << [ op |-> "dispatch", x |-> group_x, y |-> group_y, z |-> 1 ],
           [ op |-> "pipeline_barrier",
             src_stage |-> "COMPUTE_SHADER", dst_stage |-> "COMPUTE_SHADER",
             memory |-> << memory_barrier >>, image |-> << >> ] >>

\* a pipeline barrier carrying one image memory barrier for a swapchain image
CmdImageBarrier(src_stage, dst_stage, src_access, dst_access, img, old, new) ==
    [ op |-> "pipeline_barrier",
      src_stage |-> src_stage, dst_stage |-> dst_stage,
      memory |-> << >>,
      image |-> << [ src_access_mask |-> src_access, dst_access_mask |-> dst_access,
                     image |-> img, old_layout |-> old, new_layout |-> new ] >> ]

(***************************************************************************)
(* The operands bloom shifts into the addressing word, stage by stage.     *)
(***************************************************************************)
PrefilterFields ==
    [ mode |-> MODE_PREFILTER, lod |-> 0, in |-> 3, out |-> 0, bloom |-> 0 ]

PingFields(lvl) ==
    [ mode |-> MODE_DOWNSAMPLE, lod |-> lvl - 1, in |-> 0,
      out |-> 1 * BLOOM_MIP_COUNT + lvl, bloom |-> 0 ]

\* a pong that reads and writes intermediate image 0
PongFieldsSameImage(lvl) ==
    [ mode |-> MODE_DOWNSAMPLE, lod |-> lvl, in |-> 0,
      out |-> 0 * BLOOM_MIP_COUNT + lvl, bloom |-> 0 ]

PongFields(lvl) ==
    [ mode |-> MODE_DOWNSAMPLE, lod |-> lvl, in |-> 1,
      out |-> 0 * BLOOM_MIP_COUNT + lvl, bloom |-> 0 ]

UpsampleFirstFields ==
    [ mode |-> MODE_UPSAMPLE_FIRST, lod |-> BLOOM_MIP_COUNT - 2, in |-> 0,
      out |-> 3 * BLOOM_MIP_COUNT - 1, bloom |-> 0 ]

\* an upsample whose source mip ascends while the loop descends
UpsampleFieldsAscending(lvl) ==
    [ mode |-> MODE_UPSAMPLE, lod |-> BLOOM_MIP_COUNT - 2 - lvl, in |-> 0,
      out |-> 2 * BLOOM_MIP_COUNT + lvl, bloom |-> 2 ]

UpsampleFields(lvl) ==
    [ mode |-> MODE_UPSAMPLE, lod |-> lvl, in |-> 0,
      out |-> 2 * BLOOM_MIP_COUNT + lvl, bloom |-> 2 ]

ApplyFields ==
    [ mode |-> MODE_APPLY, lod |-> 0, in |-> 3, out |-> 3 * BLOOM_MIP_COUNT, bloom |-> 2 ]

Word(f) == PackWord(f.mode, f.lod, f.in, f.out, f.bloom)

\* a pass that binds the compute pipeline again
RecordPassRebinds(f, image_size) ==
    << CmdBindPipeline("COMPUTE"), CmdPushConstants(SetData(push, Word(f))) >>
    \o dispach(image_size, MemoryBarrier)

\* set_data, cmd_push_constants and dispach of one pass
RecordPass(f, image_size) ==
    << CmdPushConstants(SetData(push, Word(f))) >> \o dispach(image_size, MemoryBarrier)

\* the image barrier at the entry of bloom: graphics --> compute, to GENERAL
EntryBarrier(img) ==
    CmdImageBarrier("COLOR_ATTACHMENT_OUTPUT", "COMPUTE_SHADER",
                    {"COLOR_ATTACHMENT_WRITE"}, {"MEMORY_WRITE", "MEMORY_READ"},
                    img, "PRESENT_SRC_KHR", "GENERAL")

\* the image barrier at the exit of bloom: back to the presentation layout
ExitBarrier(img) ==
    CmdImageBarrier("COMPUTE_SHADER", "BOTTOM_OF_PIPE",
                    {"MEMORY_WRITE", "MEMORY_READ"}, {"MEMORY_READ"},
                    img, "GENERAL", "PRESENT_SRC_KHR")

\* layout an image barrier leaves its image in
AfterBarrier(layouts, cmd) ==
    [ layouts EXCEPT ![cmd.image[1].image] = cmd.image[1].new_layout ]

(***************************************************************************)
(* Render passes of VulkanEngine::new: the colour attachment's layouts.    *)
(***************************************************************************)
renderpass ==
    [ name |-> "renderpass", initial_layout |-> "UNDEFINED",
      final_layout |-> "PRESENT_SRC_KHR" ]

ui_renderpass ==
    [ name |-> "ui_renderpass", initial_layout |-> "COLOR_ATTACHMENT_OPTIMAL",
      final_layout |-> "PRESENT_SRC_KHR" ]

CmdBeginRenderPass(pass, framebuffer) ==
    [ op |-> "begin_render_pass", pass |-> pass.name, framebuffer |-> framebuffer,
      initial_layout |-> pass.initial_layout, final_layout |-> pass.final_layout ]

CmdEndRenderPass == [ op |-> "end_render_pass" ]

NoPush == [ range |-> [ offset |-> 0, size |-> 0, stage_flags |-> "NONE" ], data |-> << >> ]

(***************************************************************************)
(* Initial state: the engine is built, no frame has been rendered.         *)
(***************************************************************************)
FrameInit ==
    /\ pc = "idle"
    /\ i = 0
    /\ cmds = << >>
    /\ bloom_data = 0
    /\ push = NoPush
    /\ swapchain_layout = [ img \in 0 .. NumImages - 1 |-> "UNDEFINED" ]
    /\ layout_on_entry = "UNDEFINED"
    /\ current_image_save = 0
    /\ current_image = 0
    /\ frame = 0
    /\ surface_resolution \in Resolutions
    /\ bloom_extent = << surface_resolution[1] \div 2, surface_resolution[2] \div 2 >>
    /\ operands = << >>
    /\ frame_calls = << >>

(***************************************************************************)
(* render_func, up to the call of bloom.                                   *)
(***************************************************************************)
\* a call render_func makes outside the command stream: its argument (an image
\* or fence index), its result, and how many commands were recorded before it
FrameCall(call, arg) ==
    [ call |-> call, arg |-> arg, result |-> "ok", recorded |-> Len(cmds) ]

\* calls that return no result: queries, recorded commands, frees and destructors
Infallible ==
    { "free_command_buffers", "bloom", "get_buffer_memory_requirements", "cmd_copy_buffer",
      "dealloc", "destroy_buffer" }

\* the calls whose result the caller looks at
Fallible(cs) == { k \in DOMAIN cs : cs[k].call \notin Infallible }

\* an error handling that goes on after the call that reported the error
GoOnAfter(cs, k) == [ j \in DOMAIN cs |-> IF j = k THEN [ result |-> "error" ] @@ cs[j]
                                                     ELSE cs[j] ]

\* expect()/unwrap() on the result of call k: the calls before it, then the
\* call that reported the error, and the panic
FailAt(cs, k) == [ j \in 1 .. k |-> IF j = k THEN [ result |-> "error" ] @@ cs[j]
                                              ELSE cs[j] ]

\* acquire_next_image, then command_builder.build()
AcquireCalls(tmp) ==
    << [ call |-> "acquire_next_image", arg |-> tmp, result |-> "ok", recorded |-> 0 ],
       [ call |-> "allocate_command_buffers", arg |-> 0, result |-> "ok", recorded |-> 0 ],
       [ call |-> "begin_command_buffer", arg |-> 0, result |-> "ok", recorded |-> 0 ] >>

\* RedrawRequested: render_func copies current_image, acquires the next image
\* (the presentation engine chooses which) and builds the command buffer
AcquireNextImage ==
    /\ pc = "idle"
    /\ frame < MaxFrames
    /\ current_image' = current_image_save
    /\ \E tmp \in 0 .. NumImages - 1 :
          \/ /\ current_image_save' = tmp
             /\ frame_calls' = AcquireCalls(tmp)
             /\ pc' = "graphics"
          \/ \E k \in Fallible(AcquireCalls(tmp)) :
                /\ current_image_save' = IF k = 1 THEN current_image_save ELSE tmp
                /\ frame_calls' = FailAt(AcquireCalls(tmp), k)
                /\ pc' = "aborted"
    /\ cmds' = << >>
    /\ operands' = << >>
    /\ UNCHANGED << i, bloom_data, push, swapchain_layout, layout_on_entry, frame,
                    surface_resolution, bloom_extent >>
    /\ UNCHANGED << resVars, engineVars >>

GraphicsPass ==
    /\ pc = "graphics"
    /\ cmds' = cmds \o << CmdBeginRenderPass(renderpass, current_image),
                          CmdBindPipeline("GRAPHICS"),
                          CmdBindDescriptorSets("GRAPHICS", 0),
                          [ op |-> "bind_vertex_buffers" ],
                          [ op |-> "bind_index_buffer" ],
                          [ op |-> "draw_indexed" ],
                          CmdEndRenderPass >>
    /\ swapchain_layout' = [ swapchain_layout EXCEPT ![current_image] = renderpass.final_layout ]
    /\ pc' = "bloom"
    /\ UNCHANGED << frame_calls, i, bloom_data, push, layout_on_entry, current_image_save, current_image,
                    frame, surface_resolution, bloom_extent, operands >>
    /\ UNCHANGED << resVars, engineVars >>

(***************************************************************************)
(* bloom (src/src/bloom.rs), one action per recorded pass.                 *)
(***************************************************************************)
BloomEntry ==
    /\ pc = "bloom"
    /\ push' = PushConstantNew(0, 4, "COMPUTE", bloom_data)
    /\ layout_on_entry' = swapchain_layout[current_image_save]
    /\ cmds' = Append(cmds, EntryBarrier(current_image_save))
    /\ frame_calls' = Append(frame_calls, FrameCall("bloom", current_image_save))
    /\ swapchain_layout' = AfterBarrier(swapchain_layout, EntryBarrier(current_image_save))
    /\ pc' = "prefilter"
    /\ UNCHANGED << i, bloom_data, current_image_save, current_image, frame,
                    surface_resolution, bloom_extent, operands >>
    /\ UNCHANGED << resVars, engineVars >>

Prefilter ==
    /\ pc = "prefilter"
    /\ bloom_data' = Word(PrefilterFields)
    /\ push' = SetData(push, Word(PrefilterFields))
    /\ operands' = Append(operands, PrefilterFields)
    /\ cmds' = cmds \o << CmdBindPipeline("COMPUTE"),
                          CmdPushConstants(SetData(push, Word(PrefilterFields))),
                          CmdBindDescriptorSets("COMPUTE", 1) >>
                    \o dispach(bloom_extent, MemoryBarrier)
    /\ i' = 1
    /\ pc' = IF 1 < BLOOM_MIP_COUNT THEN "ping" ELSE "upsample_first"
    /\ UNCHANGED << frame_calls, swapchain_layout, layout_on_entry, current_image_save, current_image,
                    frame, surface_resolution, bloom_extent >>
    /\ UNCHANGED << resVars, engineVars >>

DownsamplePing ==
    /\ pc = "ping"
    /\ bloom_data' = Word(PingFields(i))
    /\ push' = SetData(push, Word(PingFields(i)))
    /\ operands' = Append(operands, PingFields(i))
    /\ cmds' = cmds \o RecordPass(PingFields(i), get_mip_size(i, bloom_extent))
    /\ pc' = "pong"
    /\ UNCHANGED << frame_calls, i, swapchain_layout, layout_on_entry, current_image_save, current_image,
                    frame, surface_resolution, bloom_extent >>
    /\ UNCHANGED << resVars, engineVars >>

DownsamplePong ==
    /\ pc = "pong"
    /\ bloom_data' = Word(PongFields(i))
    /\ push' = SetData(push, Word(PongFields(i)))
    /\ operands' = Append(operands, PongFields(i))
    /\ cmds' = cmds \o RecordPass(PongFields(i), get_mip_size(i, bloom_extent))
    /\ i' = i + 1
    /\ pc' = IF i + 1 < BLOOM_MIP_COUNT THEN "ping" ELSE "upsample_first"
    /\ UNCHANGED << frame_calls, swapchain_layout, layout_on_entry, current_image_save, current_image,
                    frame, surface_resolution, bloom_extent >>
    /\ UNCHANGED << resVars, engineVars >>

UpsampleFirst ==
    /\ pc = "upsample_first"
    /\ bloom_data' = Word(UpsampleFirstFields)
    /\ push' = SetData(push, Word(UpsampleFirstFields))
    /\ operands' = Append(operands, UpsampleFirstFields)
    /\ cmds' = cmds \o RecordPass(UpsampleFirstFields,
                                   get_mip_size(BLOOM_MIP_COUNT - 1, bloom_extent))
    /\ i' = BLOOM_MIP_COUNT - 2
    /\ pc' = "upsample"
    /\ UNCHANGED << frame_calls, swapchain_layout, layout_on_entry, current_image_save, current_image,
                    frame, surface_resolution, bloom_extent >>
    /\ UNCHANGED << resVars, engineVars >>

\* an upsample loop over (1..=N-2).rev(): it stops one level early
UpsampleStopsAtOne ==
    /\ pc = "upsample"
    /\ bloom_data' = Word(UpsampleFields(i))
    /\ push' = SetData(push, Word(UpsampleFields(i)))
    /\ operands' = Append(operands, UpsampleFields(i))
    /\ cmds' = cmds \o RecordPass(UpsampleFields(i), get_mip_size(i, bloom_extent))
    /\ i' = IF i > 1 THEN i - 1 ELSE i
    /\ pc' = IF i > 1 THEN "upsample" ELSE "apply"
    /\ UNCHANGED << frame_calls, swapchain_layout, layout_on_entry, current_image_save, current_image,
                    frame, surface_resolution, bloom_extent >>
    /\ UNCHANGED << resVars, engineVars >>

Upsample ==
    /\ pc = "upsample"
    /\ bloom_data' = Word(UpsampleFields(i))
    /\ push' = SetData(push, Word(UpsampleFields(i)))
    /\ operands' = Append(operands, UpsampleFields(i))
    /\ cmds' = cmds \o RecordPass(UpsampleFields(i), get_mip_size(i, bloom_extent))
    /\ i' = IF i > 0 THEN i - 1 ELSE i
    /\ pc' = IF i > 0 THEN "upsample" ELSE "apply"
    /\ UNCHANGED << frame_calls, swapchain_layout, layout_on_entry, current_image_save, current_image,
                    frame, surface_resolution, bloom_extent >>
    /\ UNCHANGED << resVars, engineVars >>

Apply ==
    /\ pc = "apply"
    /\ bloom_data' = Word(ApplyFields)
    /\ push' = SetData(push, Word(ApplyFields))
    /\ operands' = Append(operands, ApplyFields)
    /\ cmds' = cmds \o RecordPass(ApplyFields, surface_resolution)
    /\ pc' = "bloom_exit"
    /\ UNCHANGED << frame_calls, i, swapchain_layout, layout_on_entry, current_image_save, current_image,
                    frame, surface_resolution, bloom_extent >>
    /\ UNCHANGED << resVars, engineVars >>

BloomExit ==
    /\ pc = "bloom_exit"
    /\ cmds' = Append(cmds, ExitBarrier(current_image_save))
    /\ swapchain_layout' = AfterBarrier(swapchain_layout, ExitBarrier(current_image_save))
    /\ pc' = "ui"
    /\ UNCHANGED << i, bloom_data, push, layout_on_entry, current_image_save, current_image,
                    frame, surface_resolution, bloom_extent, operands, frame_calls >>
    /\ UNCHANGED << resVars, engineVars >>

(***************************************************************************)
(* render_func, after bloom has returned.                                  *)
(***************************************************************************)
\* the GUI render pass; renderer.cmd_draw may report an error
UiPass ==
    /\ pc = "ui"
    /\ \/ /\ cmds' = cmds \o << CmdBeginRenderPass(ui_renderpass, current_image),
                                 [ op |-> "ui_draw" ],
                                 CmdEndRenderPass >>
          /\ swapchain_layout' =
                [ swapchain_layout EXCEPT ![current_image] = ui_renderpass.final_layout ]
          /\ frame_calls' = frame_calls
          /\ pc' = "submit"
       \/ /\ cmds' = Append(cmds, CmdBeginRenderPass(ui_renderpass, current_image))
          /\ swapchain_layout' = swapchain_layout
          /\ frame_calls' = frame_calls \o
                FailAt(<< [ call |-> "cmd_draw", arg |-> 0, result |-> "ok",
                            recorded |-> Len(cmds) + 1 ] >>, 1)
          /\ pc' = "aborted"
    /\ UNCHANGED << i, bloom_data, push, layout_on_entry, current_image_save, current_image,
                    frame, surface_resolution, bloom_extent, operands >>
    /\ UNCHANGED << resVars, engineVars >>

\* a render_func that presents before it submits
SubmitCallsPresentFirst ==
    << FrameCall("end_command_buffer", 0),
       FrameCall("wait_for_fences", current_image),
       FrameCall("reset_fences", 0),
       FrameCall("queue_present", current_image),
       FrameCall("queue_submit", current_image),
       FrameCall("wait_for_fences", current_image),
       FrameCall("reset_fences", 0),
       FrameCall("device_wait_idle", 0),
       FrameCall("free_command_buffers", 0) >>

\* what render_func calls once the GUI pass is recorded
SubmitCalls ==
    << FrameCall("end_command_buffer", 0),
       FrameCall("wait_for_fences", current_image),
       FrameCall("reset_fences", 0),
       FrameCall("queue_submit", current_image),
       FrameCall("queue_present", current_image),
       FrameCall("wait_for_fences", current_image),
       FrameCall("reset_fences", 0),
       FrameCall("device_wait_idle", 0),
       FrameCall("free_command_buffers", 0) >>

\* end_command_buffer, submit, present, wait, free; then the index advances
SubmitPresent ==
    /\ pc = "submit"
    /\ \/ /\ frame_calls' = frame_calls \o SubmitCalls
          /\ current_image_save' = (current_image_save + 1) % NumImages
          /\ frame' = frame + 1
          /\ pc' = "idle"
       \/ \E k \in Fallible(SubmitCalls) :
             /\ frame_calls' = frame_calls \o FailAt(SubmitCalls, k)
             /\ current_image_save' = current_image_save
             /\ frame' = frame
             /\ pc' = "aborted"
    /\ UNCHANGED << i, cmds, bloom_data, push, swapchain_layout, layout_on_entry,
                    current_image, surface_resolution, bloom_extent, operands >>
    /\ UNCHANGED << resVars, engineVars >>

FrameNext ==
    \/ AcquireNextImage
    \/ GraphicsPass
    \/ BloomEntry
    \/ Prefilter
    \/ DownsamplePing
    \/ DownsamplePong
    \/ UpsampleFirst
    \/ Upsample
    \/ Apply
    \/ BloomExit
    \/ UiPass
    \/ SubmitPresent

(***************************************************************************)
(* The allocator (gpu_alloc) and the device memory behind it.  A block is  *)
(* a range of a memory object: either of the shared chunk (memory 0), at   *)
(* the first offset where it fits, or of a dedicated memory object of its  *)
(* own, at offset 0.                                                       *)
(***************************************************************************)
Byte == 0 .. 1

\* a byte of memory that was never written, or lies outside the buffer read
Undef == 0 - 1

None == [ some |-> FALSE ]

Some(x) == [ some |-> TRUE, val |-> x ]

ChunkBlocks == { b \in blocks : b.memory = 0 }

Fits(o, n) == \A b \in ChunkBlocks : ~ (o < b.offset + b.size /\ b.offset < o + n)

FirstFit(n) ==
    LET starts == {0} \cup { b.offset + b.size : b \in ChunkBlocks }
    IN  CHOOSE o \in starts : Fits(o, n) /\ \A q \in starts : Fits(q, n) => o <= q

\* the blocks alloc may return for a request of n bytes
AllocChoices(n) ==
    { [ memory |-> 0, offset |-> FirstFit(n), size |-> n ],
      [ memory |-> next_memory, offset |-> 0, size |-> n ] }

\* the size the driver reports in the memory requirements of a resource
MemReqSizes(size) == size .. size + MaxPadding

\* MemoryBlock::write_bytes: host write at offset within the block
WriteBytes(m, blk, offset, bytes) ==
    LET cells == { << blk.memory, blk.offset + offset + k >> : k \in 0 .. Len(bytes) - 1 }
    IN  [ c \in DOMAIN m \cup cells |->
            IF c \in cells THEN bytes[c[2] - blk.offset - offset + 1] ELSE m[c] ]

\* MemoryBlock::read_bytes: host read of n bytes at offset within the block
ReadBytes(m, blk, offset, n) ==
    [ k \in 1 .. n |->
        LET c == << blk.memory, blk.offset + offset + k - 1 >>
        IN  IF c \in DOMAIN m THEN m[c] ELSE Undef ]

\* cmd_copy_buffer of one region; a buffer occupies the memory it was bound to,
\* from the offset given to bind_buffer_memory, for data_size bytes
CopyBuffer(m, src, dst, src_offset, dst_offset, size) ==
    LET cells == { << dst.bound.memory, dst.bound.offset + dst_offset + k >> : k \in 0 .. size - 1 }
        From(k) ==
            LET c == << src.bound.memory, src.bound.offset + src_offset + k >>
            IN  IF src_offset + k < src.data_size /\ c \in DOMAIN m THEN m[c] ELSE Undef
    IN  [ c \in DOMAIN m \cup cells |->
            IF c \in cells THEN From(c[2] - dst.bound.offset - dst_offset) ELSE m[c] ]

\* contents of memory once block blk is returned: a dedicated object is freed
AfterDealloc(m, blk) ==
    IF blk.memory = 0 THEN m
    ELSE [ c \in { d \in DOMAIN m : d[1] # blk.memory } |-> m[c] ]

Call(call, obj) == [ call |-> call, obj |-> obj ]

(***************************************************************************)
(* Buffer (src/src/vulkan_engine/buffer.rs).  Elements are bytes           *)
(* (size_of::<T>() = 1).                                                   *)
(***************************************************************************)
\* the size Buffer::new creates the buffer with
RealizedSize(size, uniform) ==
    IF debug_assertions /\ uniform /\ size % 64 # 0
    THEN (size - (size % 64)) + 64
    ELSE size

\* the Buffer that Buffer::new returns, given the handle, the memory
\* requirements and the block the driver and the allocator came up with
NewBuffer(h, size, uniform, mr, blk) ==
    [ buffer |-> h,
      block |-> Some(blk),
      data_size |-> RealizedSize(size, uniform),
      allocated_size |-> blk.size,
      memory_requierments |-> mr,
      uniform |-> uniform,
      bound |-> [ memory |-> blk.memory, offset |-> 0 ] ]

NewBufferCalls(b) ==
    << Call("create_buffer", b.buffer),
       Call("get_buffer_memory_requirements", b.buffer),
       [ call |-> "alloc", obj |-> b.buffer, block |-> b.block.val ],
       [ call |-> "bind_buffer_memory", obj |-> b.buffer,
         memory |-> b.bound.memory, offset |-> b.bound.offset ] >>

\* Drop for Buffer
DropBufferCalls(b) ==
    << [ call |-> "dealloc", obj |-> b.buffer, block |-> b.block.val ],
       Call("destroy_buffer", b.buffer) >>

\* CommandBufferBuilder::build: a transient command buffer, recording begun
BuildCalls(cb) ==
    << Call("allocate_command_buffers", cb),
       Call("begin_command_buffer", cb) >>

\* a submission that returns the command buffer without waiting for the queue
SubmitNoWaitCalls(cb) ==
    << Call("end_command_buffer", cb),
       [ call |-> "queue_submit", obj |-> cb, queue |-> "transfer_queue" ],
       Call("free_command_buffers", cb) >>

\* end of recording, submission to the transfer queue, wait, free
SubmitAndWaitCalls(cb) ==
    << Call("end_command_buffer", cb),
       [ call |-> "queue_submit", obj |-> cb, queue |-> "transfer_queue" ],
       [ call |-> "queue_wait_idle", obj |-> cb, queue |-> "transfer_queue" ],
       Call("free_command_buffers", cb) >>

\* the staged transfer between build() and the return of the command buffer
TransferCalls(cb, copy) ==
    BuildCalls(cb) \o << Call(copy, cb) >> \o SubmitAndWaitCalls(cb)

NextMemoryAfter(blk) == IF blk.memory = 0 THEN next_memory ELSE next_memory + 1

\* the payloads given to write_to_vram for a buffer of n bytes
Ramp(n) == [ k \in 1 .. n |-> k % 2 ]

Payloads(n) ==
    IF n <= MaxPayload
    THEN UNION { [ 1 .. l -> Byte ] : l \in (IF n = 0 THEN {0} ELSE {n - 1, n}) }
    ELSE { Ramp(n - 1), Ramp(n) }

NoBuffer == [ buffer |-> 0, block |-> None ]

NoImage == [ image |-> 0, block |-> None ]

ResInit ==
    /\ debug_assertions \in BOOLEAN
    /\ mem = << >>
    /\ blocks = {}
    /\ calls = << >>
    /\ next_handle = 1
    /\ next_memory = 1
    /\ buffer = NoBuffer
    /\ image = NoImage
    /\ rpc = "start"
    /\ requested_size = 0
    /\ payload = << >>
    /\ readback = << >>

BufferNew ==
    /\ rpc = "start"
    /\ \E size \in 1 .. MaxRequestedSize, uniform \in BOOLEAN :
       \E mr \in MemReqSizes(RealizedSize(size, uniform)) :
       \E blk \in AllocChoices(mr) :
          LET b == NewBuffer(next_handle, size, uniform, mr, blk)
          IN  /\ buffer' = b
              /\ calls' = calls \o NewBufferCalls(b)
              /\ blocks' = blocks \cup {blk}
              /\ next_memory' = NextMemoryAfter(blk)
              /\ requested_size' = size
    /\ next_handle' = next_handle + 1
    /\ rpc' = "buffer_alive"
    /\ UNCHANGED << debug_assertions, mem, image, payload, readback >>
    /\ UNCHANGED << frameVars, engineVars >>

\* write_to_vram(offset, data): staging buffer, host write, copy, wait, free
WriteToVram ==
    /\ rpc = "buffer_alive"
    /\ \E offset \in {0}, data \in Payloads(buffer.data_size) :
       \E mr \in MemReqSizes(RealizedSize(buffer.data_size, FALSE)) :
       \E blk \in AllocChoices(mr) :
          LET size == Len(data)
              staging_buffer == NewBuffer(next_handle, buffer.data_size, FALSE, mr, blk)
              written == WriteBytes(mem, blk, 0, data)
              copied == CopyBuffer(written, staging_buffer, buffer, 0, offset, size)
          IN  /\ payload' = data
              /\ mem' = AfterDealloc(copied, blk)
              /\ calls' = calls \o NewBufferCalls(staging_buffer)
                                \o << Call("write_bytes", staging_buffer.buffer) >>
                                \o TransferCalls(next_handle + 1, "cmd_copy_buffer")
                                \o DropBufferCalls(staging_buffer)
              /\ next_memory' = NextMemoryAfter(blk)
    /\ next_handle' = next_handle + 2
    /\ rpc' = "written"
    /\ UNCHANGED << debug_assertions, blocks, buffer, image, requested_size, readback >>
    /\ UNCHANGED << frameVars, engineVars >>

\* read_from_vram(offset, data): staging buffer, copy, wait, free, host read
ReadFromVram ==
    /\ rpc = "written"
    /\ \E offset \in {0} :
       \E mr \in MemReqSizes(RealizedSize(buffer.block.val.size, FALSE)) :
       \E blk \in AllocChoices(mr) :
          LET staging_buffer ==
                  NewBuffer(next_handle, buffer.block.val.size, FALSE, mr, blk)
              copied == CopyBuffer(mem, buffer, staging_buffer, offset, 0,
                                   buffer.block.val.size)
              buffer_len == staging_buffer.data_size
          IN  /\ readback' = ReadBytes(copied, blk, 0, buffer_len)
              /\ mem' = AfterDealloc(copied, blk)
              /\ calls' = calls \o NewBufferCalls(staging_buffer)
                                \o TransferCalls(next_handle + 1, "cmd_copy_buffer")
                                \o << Call("read_bytes", staging_buffer.buffer) >>
                                \o DropBufferCalls(staging_buffer)
              /\ next_memory' = NextMemoryAfter(blk)
    /\ next_handle' = next_handle + 2
    /\ rpc' = "read"
    /\ UNCHANGED << debug_assertions, blocks, buffer, image, requested_size, payload >>
    /\ UNCHANGED << frameVars, engineVars >>

DropBuffer ==
    /\ rpc \in {"buffer_alive", "written", "read"}
    /\ calls' = calls \o DropBufferCalls(buffer)
    /\ blocks' = blocks \ {buffer.block.val}
    /\ mem' = AfterDealloc(mem, buffer.block.val)
    /\ buffer' = [ buffer EXCEPT !.block = None ]
    /\ rpc' = "buffer_dropped"
    /\ UNCHANGED << debug_assertions, next_handle, next_memory, image, requested_size, payload,
                    readback >>
    /\ UNCHANGED << frameVars, engineVars >>

(***************************************************************************)
(* Image (src/src/vulkan_engine/image.rs): construction, sampler, drop.    *)
(***************************************************************************)
\* mip views of one level each
MipViewCallsSingleLevel(img, first_view, mip_levels) ==
    [ n \in 1 .. mip_levels |->
        [ call |-> "create_image_view", obj |-> first_view + n - 1, image |-> img,
          base_mip_level |-> n - 1, level_count |-> 1 ] ]

\* the mip views Image::new creates: view n starts at mip n and reaches the last
MipViewCalls(img, first_view, mip_levels) ==
    [ n \in 1 .. mip_levels |->
        [ call |-> "create_image_view", obj |-> first_view + n - 1, image |-> img,
          base_mip_level |-> n - 1, level_count |-> mip_levels - (n - 1) ] ]

NewImage(h, mip_levels, initial_layout, final_layout, mr, blk) ==
    [ image |-> h,
      image_view |-> h + 1,
      mip_image_views |-> [ n \in 1 .. mip_levels |-> h + 1 + n ],
      image_sampler |-> None,
      block |-> Some(blk),
      memory_requierments |-> mr,
      initial_layout |-> initial_layout,
      final_layout |-> final_layout,
      current_layout |-> initial_layout,
      subresource_range |-> [ base_mip_level |-> 0, level_count |-> mip_levels ] ]

NewImageCalls(img) ==
    << Call("create_image", img.image),
       Call("get_image_memory_requirements", img.image),
       [ call |-> "alloc", obj |-> img.image, block |-> img.block.val ],
       [ call |-> "bind_image_memory", obj |-> img.image,
         memory |-> img.block.val.memory, offset |-> 0 ],
       [ call |-> "create_image_view", obj |-> img.image_view, image |-> img.image,
         base_mip_level |-> 0, level_count |-> img.subresource_range.level_count ] >>
    \o MipViewCalls(img.image, img.image + 2, img.subresource_range.level_count)

\* a drop that destroys the image handle before it returns the block
DropImageHandleFirst(img) ==
    (IF img.image_sampler.some
     THEN << Call("destroy_sampler", img.image_sampler.val) >>
     ELSE << >>)
    \o [ n \in 1 .. img.subresource_range.level_count |->
           Call("destroy_image_view", img.mip_image_views[n]) ]
    \o << Call("destroy_image_view", img.image_view),
          Call("destroy_image", img.image),
          [ call |-> "dealloc", obj |-> img.image, block |-> img.block.val ] >>

\* Drop for Image
DropImageCalls(img) ==
    (IF img.image_sampler.some
     THEN << Call("destroy_sampler", img.image_sampler.val) >>
     ELSE << >>)
    \o [ n \in 1 .. img.subresource_range.level_count |->
           Call("destroy_image_view", img.mip_image_views[n]) ]
    \o << Call("destroy_image_view", img.image_view),
          [ call |-> "dealloc", obj |-> img.image, block |-> img.block.val ],
          Call("destroy_image", img.image) >>

ImageNew ==
    /\ rpc = "start"
    /\ \E mip_levels \in 1 .. MaxMipLevels :
       \E mr \in MemReqSizes(mip_levels) :
       \E blk \in AllocChoices(mr) :
          LET img == NewImage(next_handle, mip_levels, "UNDEFINED", "GENERAL", mr, blk)
          IN  /\ image' = img
              /\ calls' = calls \o NewImageCalls(img)
              /\ blocks' = blocks \cup {blk}
              /\ next_memory' = NextMemoryAfter(blk)
              /\ next_handle' = next_handle + 2 + mip_levels
    /\ rpc' = "image_alive"
    /\ UNCHANGED << debug_assertions, mem, buffer, requested_size, payload, readback >>
    /\ UNCHANGED << frameVars, engineVars >>

\* set_sampler, called at most once on an image (as main does)
SetSampler ==
    /\ rpc = "image_alive"
    /\ ~ image.image_sampler.some
    /\ image' = [ image EXCEPT !.image_sampler = Some(next_handle) ]
    /\ calls' = Append(calls, Call("create_sampler", next_handle))
    /\ next_handle' = next_handle + 1
    /\ UNCHANGED << debug_assertions, mem, blocks, next_memory, buffer, rpc, requested_size,
                    payload, readback >>
    /\ UNCHANGED << frameVars, engineVars >>

\* the barrier change_image_layout and change_vk_image_layout record
LayoutBarrierCall(cb, img, old_layout, new_layout) ==
    [ call |-> "cmd_pipeline_barrier", obj |-> cb, image |-> img,
      src_stage |-> "TOP_OF_PIPE", dst_stage |-> "TRANSFER",
      src_access_mask |-> {}, dst_access_mask |-> {"TRANSFER_WRITE"},
      old_layout |-> old_layout, new_layout |-> new_layout ]

\* a current_layout that the recorded barriers do not change
LayoutKept(recorded, img, layout) == layout

\* the layout the last barrier recorded for img in a sequence of calls leaves it in
RECURSIVE LayoutAfter(_, _, _)
LayoutAfter(recorded, img, layout) ==
    IF recorded = << >> THEN layout
    ELSE LET c == recorded[Len(recorded)]
         IN  IF c.call = "cmd_pipeline_barrier" /\ c.image = img
             THEN c.new_layout
             ELSE LayoutAfter(SubSeq(recorded, 1, Len(recorded) - 1), img, layout)

\* an image seen as the range of memory it is bound to
ImageAsBuffer(img) ==
    [ bound |-> [ memory |-> img.block.val.memory, offset |-> 0 ],
      data_size |-> img.memory_requierments ]

\* layouts passed by the callers of change_layout and write_from_image
Layouts == { "UNDEFINED", "GENERAL", "SHADER_READ_ONLY_OPTIMAL" }

\* change_layout(old_layout, new_layout): one barrier, submitted and waited for
ChangeLayout ==
    /\ rpc = "image_alive"
    /\ \E old_layout \in {image.current_layout}, new_layout \in Layouts \ {"UNDEFINED"} :
          LET recorded == << LayoutBarrierCall(next_handle, image.image, old_layout, new_layout) >>
          IN  /\ calls' = calls \o BuildCalls(next_handle) \o recorded
                                \o SubmitAndWaitCalls(next_handle)
              /\ image' = [ image EXCEPT !.current_layout =
                                LayoutAfter(recorded, image.image, image.current_layout) ]
    /\ next_handle' = next_handle + 1
    /\ rpc' = "image_ready"
    /\ UNCHANGED << debug_assertions, mem, blocks, next_memory, buffer, requested_size,
                    payload, readback >>
    /\ UNCHANGED << frameVars, engineVars >>

\* the commands Image::write_to_vram and Image::read_from_vram record
ImageTransferCalls(cb, img, copy) ==
    << LayoutBarrierCall(cb, img.image, img.initial_layout, "TRANSFER_DST_OPTIMAL"),
       [ call |-> copy, obj |-> cb, image |-> img.image,
         image_layout |-> "TRANSFER_DST_OPTIMAL" ],
       LayoutBarrierCall(cb, img.image, "TRANSFER_DST_OPTIMAL", img.final_layout) >>

\* Image::write_to_vram(data): staging buffer, host write, copy, wait, free
ImageWriteToVram ==
    /\ rpc \in {"image_alive", "image_ready"}
    /\ \E data \in Payloads(image.memory_requierments) :
       \E mr \in MemReqSizes(RealizedSize(image.memory_requierments, FALSE)) :
       \E blk \in AllocChoices(mr) :
          LET staging_buffer ==
                  NewBuffer(next_handle, image.memory_requierments, FALSE, mr, blk)
              written == WriteBytes(mem, blk, 0, data)
              copied == CopyBuffer(written, staging_buffer, ImageAsBuffer(image), 0, 0,
                                   image.memory_requierments)
              recorded == ImageTransferCalls(next_handle + 1, image, "cmd_copy_buffer_to_image")
          IN  /\ payload' = data
              /\ mem' = AfterDealloc(copied, blk)
              /\ calls' = calls \o NewBufferCalls(staging_buffer)
                                \o << Call("write_bytes", staging_buffer.buffer) >>
                                \o BuildCalls(next_handle + 1) \o recorded
                                \o SubmitAndWaitCalls(next_handle + 1)
                                \o DropBufferCalls(staging_buffer)
              /\ image' = [ image EXCEPT !.current_layout =
                                LayoutAfter(recorded, image.image, image.current_layout) ]
              /\ next_memory' = NextMemoryAfter(blk)
    /\ next_handle' = next_handle + 2
    /\ rpc' = "image_written"
    /\ UNCHANGED << debug_assertions, blocks, buffer, requested_size, readback >>
    /\ UNCHANGED << frameVars, engineVars >>

\* Image::read_from_vram(data), data sized as the image: staging buffer, copy,
\* wait, free, host read
ImageReadFromVram ==
    /\ rpc = "image_written"
    /\ \E size \in {image.memory_requierments} :
       \E mr \in MemReqSizes(RealizedSize(size, FALSE)) :
       \E blk \in AllocChoices(mr) :
          LET staging_buffer == NewBuffer(next_handle, size, FALSE, mr, blk)
              copied == CopyBuffer(mem, ImageAsBuffer(image), staging_buffer, 0, 0,
                                   image.memory_requierments)
              recorded == ImageTransferCalls(next_handle + 1, image, "cmd_copy_image_to_buffer")
          IN  /\ readback' = ReadBytes(copied, blk, 0, staging_buffer.data_size)
              /\ mem' = AfterDealloc(copied, blk)
              /\ calls' = calls \o NewBufferCalls(staging_buffer)
                                \o BuildCalls(next_handle + 1) \o recorded
                                \o SubmitAndWaitCalls(next_handle + 1)
                                \o << Call("read_bytes", staging_buffer.buffer) >>
                                \o DropBufferCalls(staging_buffer)
              /\ image' = [ image EXCEPT !.current_layout =
                                LayoutAfter(recorded, image.image, image.current_layout) ]
              /\ next_memory' = NextMemoryAfter(blk)
    /\ next_handle' = next_handle + 2
    /\ rpc' = "image_read"
    /\ UNCHANGED << debug_assertions, blocks, buffer, requested_size, payload >>
    /\ UNCHANGED << frameVars, engineVars >>

\* a write_from_image that leaves the destination in the transfer layout
WriteFromImageCallsNoRestore(cb, src, src_image_layout, img) ==
    << LayoutBarrierCall(cb, src, src_image_layout, "TRANSFER_SRC_OPTIMAL"),
       LayoutBarrierCall(cb, img.image, img.current_layout, "TRANSFER_DST_OPTIMAL"),
       [ call |-> "cmd_copy_image", obj |-> cb,
         src_image |-> src, src_image_layout |-> src_image_layout,
         dst_image |-> img.image, dst_image_layout |-> "TRANSFER_DST_OPTIMAL" ],
       LayoutBarrierCall(cb, src, "TRANSFER_SRC_OPTIMAL", src_image_layout) >>

\* the commands write_from_image records into the command buffer
WriteFromImageCalls(cb, src, src_image_layout, img) ==
    << LayoutBarrierCall(cb, src, src_image_layout, "TRANSFER_SRC_OPTIMAL"),
       LayoutBarrierCall(cb, img.image, img.current_layout, "TRANSFER_DST_OPTIMAL"),
       [ call |-> "cmd_copy_image", obj |-> cb,
         src_image |-> src, src_image_layout |-> src_image_layout,
         dst_image |-> img.image, dst_image_layout |-> "TRANSFER_DST_OPTIMAL" ],
       LayoutBarrierCall(cb, src, "TRANSFER_SRC_OPTIMAL", src_image_layout),
       LayoutBarrierCall(cb, img.image, "TRANSFER_DST_OPTIMAL", img.current_layout) >>

\* write_from_image(command_builder, command_buffer, src_image, aspect, layout):
\* records into the caller's command buffer, or into one it builds
WriteFromImage ==
    /\ rpc \in {"image_alive", "image_ready"}
    /\ \E src_image_layout \in Layouts \ {"UNDEFINED"}, own \in BOOLEAN :
          LET src == next_handle
              cb == next_handle + 1
              recorded == WriteFromImageCalls(cb, src, src_image_layout, image)
          IN  /\ calls' = calls \o (IF own THEN BuildCalls(cb) ELSE << >>) \o recorded
              /\ image' = [ image EXCEPT !.current_layout =
                                LayoutAfter(recorded, image.image, image.current_layout) ]
              /\ src_image' = [ image |-> src, passed_layout |-> src_image_layout,
                                layout |-> LayoutAfter(recorded, src, src_image_layout),
                                layout_before |-> image.current_layout,
                                recorded |-> recorded ]
    /\ next_handle' = next_handle + 2
    /\ rpc' = "image_copied"
    /\ UNCHANGED << debug_assertions, mem, blocks, next_memory, buffer, requested_size,
                    payload, readback >>
    /\ UNCHANGED << frameVars, unit, objVars >>

DropImage ==
    /\ rpc \in {"image_alive", "image_ready", "image_written", "image_read", "image_copied"}
    /\ calls' = calls \o DropImageCalls(image)
    /\ blocks' = blocks \ {image.block.val}
    /\ mem' = AfterDealloc(mem, image.block.val)
    /\ image' = [ image EXCEPT !.block = None ]
    /\ rpc' = "image_dropped"
    /\ UNCHANGED << debug_assertions, next_handle, next_memory, buffer, requested_size, payload,
                    readback >>
    /\ UNCHANGED << frameVars, engineVars >>

ResNext ==
    \/ BufferNew
    \/ WriteToVram
    \/ ReadFromVram
    \/ DropBuffer
    \/ ImageNew
    \/ SetSampler
    \/ ChangeLayout
    \/ ImageWriteToVram
    \/ ImageReadFromVram
    \/ WriteFromImage
    \/ DropImage

(***************************************************************************)
(* Staged transfers of a Buffer when a driver or allocator call reports an  *)
(* error: every result is taken with expect() or unwrap_or_else(panic!).   *)
(***************************************************************************)
\* the steps of Buffer::write_to_vram, the drop of the staging buffer aside
WriteToVramSteps(staging_buffer, cb) ==
    NewBufferCalls(staging_buffer)
    \o << Call("write_bytes", staging_buffer.buffer) >>
    \o TransferCalls(cb, "cmd_copy_buffer")

\* the steps of Buffer::read_from_vram, the drop of the staging buffer aside
ReadFromVramSteps(staging_buffer, cb) ==
    NewBufferCalls(staging_buffer)
    \o TransferCalls(cb, "cmd_copy_buffer")
    \o << Call("read_bytes", staging_buffer.buffer) >>

\* a panic at step k, in a build that unwinds, drops the staging buffer if
\* Buffer::new had returned it; a build that aborts on panic drops nothing
Unwind(staging_buffer, k, unwinds) ==
    IF unwinds /\ k > Len(NewBufferCalls(staging_buffer))
    THEN DropBufferCalls(staging_buffer)
    ELSE << >>

\* write_to_vram when one of its calls reports an error
WriteToVramFails ==
    /\ rpc = "buffer_alive"
    /\ \E mr \in MemReqSizes(RealizedSize(buffer.data_size, FALSE)) :
       \E blk \in AllocChoices(mr) :
          LET staging_buffer == NewBuffer(next_handle, buffer.data_size, FALSE, mr, blk)
              steps == WriteToVramSteps(staging_buffer, next_handle + 1)
          IN  \E k \in Fallible(steps), unwinds \in BOOLEAN :
                 calls' = calls \o FailAt(steps, k) \o Unwind(staging_buffer, k, unwinds)
    /\ rpc' = "aborted"
    /\ UNCHANGED << debug_assertions, mem, blocks, next_handle, next_memory, buffer, image,
                    requested_size, payload, readback >>
    /\ UNCHANGED << frameVars, engineVars >>

\* read_from_vram when one of its calls reports an error
ReadFromVramFails ==
    /\ rpc = "written"
    /\ \E mr \in MemReqSizes(RealizedSize(buffer.block.val.size, FALSE)) :
       \E blk \in AllocChoices(mr) :
          LET staging_buffer ==
                  NewBuffer(next_handle, buffer.block.val.size, FALSE, mr, blk)
              steps == ReadFromVramSteps(staging_buffer, next_handle + 1)
          IN  \E k \in Fallible(steps), unwinds \in BOOLEAN :
                 calls' = calls \o FailAt(steps, k) \o Unwind(staging_buffer, k, unwinds)
    /\ rpc' = "aborted"
    /\ UNCHANGED << debug_assertions, mem, blocks, next_handle, next_memory, buffer, image,
                    requested_size, payload, readback >>
    /\ UNCHANGED << frameVars, engineVars >>

\* a frame, with no resource under test
FrameFaults == rpc = "start" /\ FrameNext

\* a buffer of one size and its staged transfers, the payload filling the
\* buffer, with no frame being recorded
BufferFaults ==
    /\ pc = "idle" /\ frame_calls = << >>
    /\ \/ BufferNew /\ requested_size' = MaxRequestedSize
       \/ WriteToVram /\ payload' = Ramp(buffer.data_size)
       \/ ReadFromVram
       \/ WriteToVramFails
       \/ ReadFromVramFails

\* the program fails either in a frame or in a staged transfer, not in both
FaultsNext ==
    \/ FrameFaults
    \/ BufferFaults

\* no resource is under test while a frame is being recorded
ResIdle ==
    /\ debug_assertions = TRUE
    /\ mem = << >>
    /\ blocks = {}
    /\ calls = << >>
    /\ next_handle = 1
    /\ next_memory = 1
    /\ buffer = NoBuffer
    /\ image = NoImage
    /\ rpc = "start"
    /\ requested_size = 0
    /\ payload = << >>
    /\ readback = << >>

\* no frame is being recorded while a resource is under test
FrameIdle ==
    /\ pc = "idle"
    /\ i = 0
    /\ cmds = << >>
    /\ bloom_data = 0
    /\ push = NoPush
    /\ swapchain_layout = [ img \in 0 .. NumImages - 1 |-> "UNDEFINED" ]
    /\ layout_on_entry = "UNDEFINED"
    /\ current_image_save = 0
    /\ current_image = 0
    /\ frame = 0
    /\ surface_resolution = << 1080, 720 >>
    /\ bloom_extent = << 540, 360 >>
    /\ operands = << >>
    /\ frame_calls = << >>

(***************************************************************************)
(* Functions of bloom.rs called on their own, on any input.                *)
(***************************************************************************)
NoCall == [ fn |-> "none" ]

NoSource == [ image |-> 0 ]

\* dispach(engine, command_buffer, image_size, memory_barrier)
CallDispach ==
    /\ unit = NoCall
    /\ \E w \in 0 .. MaxExtent, h \in 0 .. MaxExtent :
          unit' = [ fn |-> "dispach", image_size |-> << w, h >>,
                    cmds |-> dispach(<< w, h >>, MemoryBarrier) ]
    /\ UNCHANGED << frameVars, resVars, src_image, objVars >>

\* get_mip_size(current_mip, image)
CallGetMipSize ==
    /\ unit = NoCall
    /\ \E current_mip \in 0 .. BLOOM_MIP_COUNT - 1, w \in 0 .. MaxExtent, h \in 0 .. MaxExtent :
          unit' = [ fn |-> "get_mip_size", current_mip |-> current_mip,
                    extent |-> << w, h >>,
                    result |-> get_mip_size(current_mip, << w, h >>) ]
    /\ UNCHANGED << frameVars, resVars, src_image, objVars >>

(***************************************************************************)
(* Device::new (src/src/vulkan_engine/device.rs): the choice of the        *)
(* physical device and of its queue family.                                *)
(***************************************************************************)
\* vk::QueueFamilyProperties as the driver may report them
QueueFamilies ==
    { [ queue_count |-> 0, queue_flags |-> {"GRAPHICS", "COMPUTE", "TRANSFER"} ],
      [ queue_count |-> 1, queue_flags |-> {"GRAPHICS", "COMPUTE", "TRANSFER"} ],
      [ queue_count |-> 1, queue_flags |-> {"GRAPHICS", "COMPUTE"} ] }

\* a physical device is the list of its queue families
PhysicalDevices == UNION { [ 1 .. l -> QueueFamilies ] : l \in 0 .. MaxFamilies }

IsWantedFamily(queue_family) ==
    /\ queue_family.queue_count > 0
    /\ "GRAPHICS" \in queue_family.queue_flags
    /\ "TRANSFER" \in queue_family.queue_flags
    /\ "COMPUTE" \in queue_family.queue_flags

\* a find_queue_family whose loop does not break: the last wanted family wins
RECURSIVE find_queue_family_last(_, _, _)
find_queue_family_last(queue_families, index, family_index) ==
    IF index > Len(queue_families) THEN family_index
    ELSE find_queue_family_last(queue_families, index + 1,
                                IF IsWantedFamily(queue_families[index])
                                THEN Some(index - 1) ELSE family_index)

\* find_queue_family: the loop over the families, left as soon as one is found
RECURSIVE find_queue_family(_, _, _)
find_queue_family(queue_families, index, family_index) ==
    IF index > Len(queue_families) THEN family_index
    ELSE LET found == IF IsWantedFamily(queue_families[index])
                      THEN Some(index - 1) ELSE family_index
         IN  IF found.some THEN found
             ELSE find_queue_family(queue_families, index + 1, found)

is_physical_device_suitable(physical_device) == find_queue_family(physical_device, 1, None)

\* pick_physical_device: the loop over all devices, result set once
RECURSIVE pick_physical_device(_, _, _)
pick_physical_device(physical_devices, n, result) ==
    IF n > Len(physical_devices) THEN result
    ELSE pick_physical_device(physical_devices, n + 1,
            IF is_physical_device_suitable(physical_devices[n]).some /\ ~ result.some
            THEN Some(n) ELSE result)

\* Device::new(instance): pick_physical_device, then create_logical_device
CallDeviceNew ==
    /\ unit = NoCall
    /\ \E physical_devices \in UNION { [ 1 .. l -> PhysicalDevices ] : l \in 0 .. MaxDevices } :
          LET result == pick_physical_device(physical_devices, 1, None)
          IN  unit' = IF ~ result.some
                      THEN [ fn |-> "Device::new", physical_devices |-> physical_devices,
                             outcome |-> "panic" ]
                      ELSE [ fn |-> "Device::new", physical_devices |-> physical_devices,
                             outcome |-> "ok",
                             physical_device |-> result.val,
                             queue_family_index |->
                                 find_queue_family(physical_devices[result.val], 1, None).val ]
    /\ UNCHANGED << frameVars, resVars, src_image, objVars >>

\* std::cmp::min
min(a, b) == IF a <= b THEN a ELSE b

\* create_logical_device for the selected family: the queues the device is
\* created with, and the index each queue handle is fetched with
create_logical_device(queue_family_props) ==
    LET queue_priorities == << 1, 1, 1, 1 >>
    IN  [ queue_count |-> Len(queue_priorities),
          graphic_queue |-> min(0, queue_family_props.queue_count),
          compute_queue |-> min(1, queue_family_props.queue_count),
          transfer_queue |-> min(2, queue_family_props.queue_count),
          present_queue |-> min(3, queue_family_props.queue_count) ]

\* Device::create_logical_device on a device whose selected family has
\* queue_count queues
CallCreateLogicalDevice ==
    /\ unit = NoCall
    /\ \E queue_count \in 1 .. MaxQueueCount :
          LET queue_family_props ==
                  [ queue_count |-> queue_count,
                    queue_flags |-> {"GRAPHICS", "COMPUTE", "TRANSFER"} ]
          IN  unit' = [ fn |-> "Device::create_logical_device",
                        queue_family_props |-> queue_family_props,
                        device |-> create_logical_device(queue_family_props) ]
    /\ UNCHANGED << frameVars, resVars, src_image, objVars >>

(***************************************************************************)
(* ShaderModule (src/src/vulkan_engine/shader_module.rs).  A file is the    *)
(* sequence of its bytes, or None when it cannot be opened; a word is read  *)
(* from four bytes in the byte order of the machine.                        *)
(***************************************************************************)
MAGIC_NUMBER == 119734787

\* the bytes of the magic number
SpvBytes == { 2, 3, 7, 35 }

\* the magic number as a little-endian and as a big-endian file write it
MagicLittle == << 3, 2, 35, 7 >>

MagicBig == << 7, 35, 2, 3 >>

\* files of at most one word, and files of a first word followed by more bytes
ShaderFiles ==
    UNION { [ 1 .. l -> SpvBytes ] : l \in 0 .. 4 }
    \cup { h \o t : h \in { MagicLittle, MagicBig, << 3, 2, 7, 35 >> },
                    t \in UNION { [ 1 .. l -> { 2, 7 } ] : l \in 1 .. MaxTailBytes } }

\* u32::swap_bytes
swap_bytes(w) ==
    (w % 256) * 16777216 + ((w \div 256) % 256) * 65536
        + ((w \div 65536) % 256) * 256 + (w \div 16777216)

\* the u32 that four bytes in memory are, on a little-endian or big-endian machine
WordOfBytes(b, big_endian) ==
    IF big_endian
    THEN b[1] * 16777216 + b[2] * 65536 + b[3] * 256 + b[4]
    ELSE b[4] * 16777216 + b[3] * 65536 + b[2] * 256 + b[1]

\* read_exact into the memory of a Vec<u32> of the given number of words
ReadWords(bytes, words, big_endian) ==
    [ k \in 1 .. words |-> WordOfBytes(SubSeq(bytes, 4 * k - 3, 4 * k), big_endian) ]

\* a swap of the first word only
SwapFirstWord(result) ==
    [ k \in DOMAIN result |-> IF k = 1 THEN swap_bytes(result[k]) ELSE result[k] ]

\* for word in &mut result { *word = word.swap_bytes() }
SwapWords(result) == [ k \in DOMAIN result |-> swap_bytes(result[k]) ]

Ok(v) == [ ok |-> TRUE, val |-> v ]

Err(e) == [ ok |-> FALSE, err |-> e ]

\* read_spv on a file that could be opened
read_spv(bytes, big_endian) ==
    LET size == Len(bytes)
        words == size \div 4
        read == ReadWords(bytes, words, big_endian)
        result == IF read # << >> /\ read[1] = swap_bytes(MAGIC_NUMBER)
                  THEN SwapWords(read)
                  ELSE read
    IN  IF size % 4 # 0 THEN Err("input length not divisible by 4")
        ELSE IF result = << >> \/ result[1] # MAGIC_NUMBER
             THEN Err("input missing SPIR-V magic number")
             ELSE Ok(result)

\* ShaderModule::new(device, shader_path, entry_point)
CallShaderModuleNew ==
    /\ unit = NoCall
    /\ \E big_endian \in BOOLEAN :
       \E file \in { None } \cup { Some(f) : f \in ShaderFiles } :
          LET bytes_code == read_spv(file.val, big_endian)
          IN  unit' = IF ~ file.some
                      THEN [ fn |-> "ShaderModule::new", file |-> file,
                             big_endian |-> big_endian, outcome |-> "panic",
                             message |-> "Failed to open the shader_path", calls |-> << >> ]
                      ELSE IF ~ bytes_code.ok
                      THEN [ fn |-> "ShaderModule::new", file |-> file,
                             big_endian |-> big_endian, outcome |-> "panic",
                             message |-> "Failed to read a shader.", calls |-> << >> ]
                      ELSE [ fn |-> "ShaderModule::new", file |-> file,
                             big_endian |-> big_endian, outcome |-> "ok",
                             calls |-> << [ call |-> "create_shader_module",
                                            code |-> bytes_code.val ] >> ]
    /\ UNCHANGED << frameVars, resVars, src_image, objVars >>

(***************************************************************************)
(* DescriptorSet (src/src/vulkan_engine/descriptor.rs).  A layout handle   *)
(* stands for the bindings it was created from; a set handle is the rank   *)
(* of its allocation from the pool.                                        *)
(***************************************************************************)
DescriptorTypes == { "UNIFORM_BUFFER", "STORAGE_IMAGE", "COMBINED_IMAGE_SAMPLER" }

\* the Vec<vk::DescriptorSetLayoutBinding> callers give: binding n at position n
BindingLists ==
    UNION { { [ n \in 1 .. l |-> [ binding |-> n - 1, descriptor_type |-> t[n] ] ] :
                t \in [ 1 .. l -> DescriptorTypes ] } : l \in 1 .. MaxBindings }

NoDescriptor == [ state |-> "none" ]

\* DescriptorSet::new(device, descriptor_type, max_set, bindings)
DescriptorSetNew ==
    /\ descriptor = NoDescriptor
    /\ \E bindings \in BindingLists :
          descriptor' = [ state |-> "alive",
                          descriptor_set |-> << 1 >>,
                          descriptor_set_layout |-> << bindings >>,
                          bindings_info |-> bindings,
                          writes |-> << >> ]
    /\ UNCHANGED << frameVars, resVars, unit, src_image, pipeline, appVars >>

\* create_another_set(device, bindings)
CreateAnotherSet ==
    /\ descriptor.state = "alive"
    /\ Len(descriptor.descriptor_set) < MaxSets
    /\ \E bindings \in BindingLists :
          descriptor' = [ descriptor EXCEPT
                            !.descriptor_set_layout = Append(@, bindings),
                            !.descriptor_set = Append(@, Len(@) + 1) ]
    /\ UNCHANGED << frameVars, resVars, unit, src_image, pipeline, appVars >>

\* the vk::WriteDescriptorSet update_descriptor_set builds
WriteDescriptor(d, dst_set, dst_binding) ==
    [ dst_set |-> d.descriptor_set[dst_set + 1],
      dst_binding |-> dst_binding,
      dst_array_element |-> 0,
      descriptor_type |-> d.bindings_info[dst_binding + 1].descriptor_type ]

\* update_descriptor_set(dst_set, dst_binding, buffer_info, image_info), for a
\* binding the layout of that set declares; indexing past bindings_info panics
UpdateDescriptorSet ==
    /\ descriptor.state = "alive"
    /\ \E dst_set \in 0 .. Len(descriptor.descriptor_set) - 1 :
       \E dst_binding \in { b.binding : b \in
                               { descriptor.descriptor_set_layout[dst_set + 1][n] :
                                   n \in DOMAIN descriptor.descriptor_set_layout[dst_set + 1] } } :
          IF dst_binding + 1 \in DOMAIN descriptor.bindings_info
          THEN descriptor' = [ descriptor EXCEPT
                                 !.state = "updated",
                                 !.writes = Append(@, WriteDescriptor(descriptor, dst_set,
                                                                      dst_binding)) ]
                                 @@ [ dst_set |-> dst_set, dst_binding |-> dst_binding ]
          ELSE descriptor' = [ descriptor EXCEPT !.state = "panicked" ]
                                 @@ [ dst_set |-> dst_set, dst_binding |-> dst_binding ]
    /\ UNCHANGED << frameVars, resVars, unit, src_image, pipeline, appVars >>

(***************************************************************************)
(* The two DescriptorSet objects main builds (src/src/main.rs), with the   *)
(* pool DescriptorSet::new creates for them and the descriptor count of    *)
(* every binding.                                                          *)
(***************************************************************************)
\* DescriptorPool::new(device, descritpor_type, max_set)
DescriptorPoolNew(descritpor_type, max_set) ==
    [ max_sets |-> max_set,
      pool_sizes |-> [ k \in DOMAIN descritpor_type |->
                         [ ty |-> descritpor_type[k][1],
                           descriptor_count |-> descritpor_type[k][2] ] ] ]

LayoutBinding(binding, descriptor_type, descriptor_count) ==
    [ binding |-> binding, descriptor_type |-> descriptor_type,
      descriptor_count |-> descriptor_count ]

\* DescriptorSet::new with its pool: one layout, one set allocated from the pool
DescriptorSetOfPool(owner, descritpor_type, max_set, bindings) ==
    [ state |-> owner,
      descriptor_pool |-> DescriptorPoolNew(descritpor_type, max_set),
      descriptor_set |-> << 1 >>,
      descriptor_set_layout |-> << bindings >>,
      bindings_info |-> bindings,
      writes |-> << >> ]

\* let mut uniform_descriptor = DescriptorSet::new(..)
MainUniformDescriptor ==
    /\ descriptor = NoDescriptor
    /\ descriptor' = DescriptorSetOfPool("uniform_descriptor",
                         << << "UNIFORM_BUFFER", 2 >> >>, 2,
                         << LayoutBinding(0, "UNIFORM_BUFFER", 1),
                            LayoutBinding(1, "UNIFORM_BUFFER", 1) >>)
    /\ UNCHANGED << frameVars, resVars, unit, src_image, pipeline, appVars >>

\* uniform_descriptor.create_another_set(..)
MainCreateAnotherSet ==
    /\ descriptor.state = "uniform_descriptor"
    /\ Len(descriptor.descriptor_set) = 1
    /\ descriptor' = [ descriptor EXCEPT
                         !.descriptor_set_layout =
                             Append(@, << LayoutBinding(0, "UNIFORM_BUFFER", 1) >>),
                         !.descriptor_set = Append(@, Len(@) + 1) ]
    /\ UNCHANGED << frameVars, resVars, unit, src_image, pipeline, appVars >>

\* let image_descriptor = DescriptorSet::new(..)
MainImageDescriptor ==
    /\ descriptor = NoDescriptor
    /\ descriptor' = DescriptorSetOfPool("image_descriptor",
                         << << "UNIFORM_BUFFER", 1 >> >>, 1,
                         << LayoutBinding(0, "STORAGE_IMAGE", 3 * BLOOM_MIP_COUNT + 1),
                            LayoutBinding(1, "COMBINED_IMAGE_SAMPLER", 4),
                            LayoutBinding(2, "COMBINED_IMAGE_SAMPLER", 4),
                            LayoutBinding(3, "UNIFORM_BUFFER", 1) >>)
    /\ UNCHANGED << frameVars, resVars, unit, src_image, pipeline, appVars >>

EngineNext ==
    \/ DescriptorSetNew
    \/ CreateAnotherSet
    \/ UpdateDescriptorSet
    \/ MainUniformDescriptor
    \/ MainCreateAnotherSet
    \/ MainImageDescriptor

(***************************************************************************)
(* GraphicsPipeline (src/src/vulkan_engine/pipeline.rs): the builder state *)
(* is its viewports, its scissors and the rest, for which subpass_index    *)
(* stands; a pipeline handle is the rank of its creation.                   *)
(***************************************************************************)
Extents == [ width : 1 .. MaxWindow, height : 1 .. MaxWindow ]

\* vk::Viewport::builder().width(w).height(h).min_depth(0).max_depth(1).build()
Viewport(extent) ==
    [ x |-> 0, y |-> 0, width |-> extent.width, height |-> extent.height,
      min_depth |-> 0, max_depth |-> 1 ]

\* vk::Rect2D::builder().extent(e).build()
Rect2D(extent) == [ offset |-> [ x |-> 0, y |-> 0 ], extent |-> extent ]

\* viewports and scissors a caller may add to a builder
BuilderViewports ==
    { Viewport([ width |-> 1, height |-> 1 ]),
      [ x |-> 1, y |-> 1, width |-> 1, height |-> 1, min_depth |-> 1, max_depth |-> 1 ] }

BuilderScissors ==
    { Rect2D([ width |-> 1, height |-> 1 ]),
      [ offset |-> [ x |-> 1, y |-> 1 ], extent |-> [ width |-> 1, height |-> 1 ] ] }

GraphicsPipelineBuilders ==
    [ viewports : UNION { [ 1 .. l -> BuilderViewports ] : l \in 0 .. 2 },
      scissors : UNION { [ 1 .. l -> BuilderScissors ] : l \in 0 .. 2 },
      subpass_index : 0 .. 1 ]

NoPipeline == [ state |-> "none" ]

\* GraphicsPipelineBuilder::build(self, device): the create info the driver
\* receives, and the pipeline that keeps the builder
build(self, handle) ==
    [ pipeline |-> handle,
      create_info |-> [ viewports |-> self.viewports,
                        scissors |-> self.scissors,
                        subpass |-> self.subpass_index ],
      builder |-> Some(self) ]

\* a recreate that resizes every viewport and every scissor of the builder
recreateEvery(self, extent, handle) ==
    build([ self.builder.val EXCEPT
              !.viewports = [ n \in DOMAIN @ |-> Viewport(extent) ],
              !.scissors = [ n \in DOMAIN @ |-> Rect2D(extent) ] ],
          handle)

\* GraphicsPipeline::recreate(self, device, extent), when neither index panics
recreate(self, extent, handle) ==
    build([ self.builder.val EXCEPT
              !.viewports[1] = Viewport(extent),
              !.scissors[1] = Rect2D(extent) ],
          handle)

\* builder.build(device), as build_basic_pipeline ends
GraphicsPipelineBuild ==
    /\ pipeline = NoPipeline
    /\ \E builder \in GraphicsPipelineBuilders :
          pipeline' = [ state |-> "built",
                        object |-> build(builder, 1),
                        recreations |-> 0,
                        destroyed |-> {} ]
    /\ UNCHANGED << frameVars, resVars, unit, src_image, descriptor, appVars >>

\* pipeline.recreate(device, extent): the pipeline it is called on is consumed,
\* and destroyed when the call ends or panics
GraphicsPipelineRecreate ==
    /\ pipeline.state \in { "built", "recreated" }
    /\ pipeline.recreations < MaxRecreate
    /\ \E extent \in Extents :
          LET self == pipeline.object
          IN  IF self.builder.val.viewports = << >> \/ self.builder.val.scissors = << >>
              THEN pipeline' = [ state |-> "panicked",
                                 self |-> self,
                                 extent |-> extent,
                                 recreations |-> pipeline.recreations,
                                 destroyed |-> pipeline.destroyed \cup { self.pipeline } ]
              ELSE pipeline' = [ state |-> "recreated",
                                 object |-> recreate(self, extent, self.pipeline + 1),
                                 self |-> self,
                                 extent |-> extent,
                                 recreations |-> pipeline.recreations + 1,
                                 destroyed |-> pipeline.destroyed \cup { self.pipeline } ]
    /\ UNCHANGED << frameVars, resVars, unit, src_image, descriptor, appVars >>

PipelineNext ==
    \/ GraphicsPipelineBuild
    \/ GraphicsPipelineRecreate

(***************************************************************************)
(* main (src/src/main.rs) and VulkanEngine (src/src/vulkan_engine/mod.rs): *)
(* the event loop, window_resized, and the drops when main returns.        *)
(***************************************************************************)
NoEngine == [ state |-> "none" ]

NoApp == [ state |-> "none" ]

NoSwapchain == [ swapchain |-> 0 ]

NoRender == [ pc |-> "none" ]

NoDriver == [ next |-> 1 ]

NoAllocator == [ state |-> "none" ]

\* sizes a Resized event may carry
WindowSizes == [ width : 0 .. MaxWindow, height : 0 .. MaxWindow ]

\* the builder build_basic_pipeline fills: one viewport and one scissor of the
\* window extent
BasicBuilder(window_extent, subpass_index) ==
    [ viewports |-> << Viewport(window_extent) >>,
      scissors |-> << Rect2D(window_extent) >>,
      subpass_index |-> subpass_index ]

\* let mut engine = VulkanEngine::new(), then build_basic_pipeline, up to the
\* call of run_return
MainStarts ==
    /\ app = NoApp
    /\ \E extent \in Extents, pipelines \in 1 .. MaxPipelines :
          engine' = [ state |-> "alive",
                      resized |-> FALSE,
                      minimized |-> FALSE,
                      old_extent |-> extent,
                      new_extent |-> extent,
                      surface_resolution |-> extent,
                      window_extent |-> extent,
                      swapchain_extent |-> extent,
                      depth_stencil_image |-> Some(extent),
                      graphics_pipelines |->
                          [ k \in 1 .. pipelines |-> build(BasicBuilder(extent, k - 1), k) ],
                      pipelines_created |-> pipelines ]
    /\ app' = [ state |-> "running",
                next_event |-> "NewEvents",
                control_flow |-> "Poll",
                current_image |-> 0,
                window_minimized |-> FALSE,
                requested |-> None,
                pending |-> FALSE,
                resizes |-> 0,
                rendered |-> FALSE,
                last_resized |-> "none",
                new_events |-> 0,
                window_resized |-> 0 ]
    /\ gpu_calls' = << >>
    /\ UNCHANGED << allocator, swapVars, frameVars, resVars, unit, src_image, descriptor, pipeline >>

\* WindowEvent::CloseRequested, or Escape pressed
CloseRequested ==
    /\ app.state = "running"
    /\ app.control_flow = "Poll"
    /\ app.next_event = "WindowEvent"
    /\ app' = [ app EXCEPT !.control_flow = "Exit" ]
    /\ UNCHANGED << allocator, swapVars, frameVars, resVars, unit, src_image, descriptor, pipeline, engine,
                    gpu_calls >>

\* WindowEvent::Resized(logical_size)
Resized ==
    /\ app.state = "running"
    /\ app.control_flow = "Poll"
    /\ app.next_event = "WindowEvent"
    /\ \E logical_size \in WindowSizes :
          IF logical_size.width # 0 /\ logical_size.height # 0
          THEN /\ app.resizes < MaxRecreate
               /\ engine' = [ engine EXCEPT !.new_extent = logical_size,
                                            !.resized = TRUE,
                                            !.minimized = FALSE ]
               /\ app' = [ app EXCEPT !.window_minimized = FALSE,
                                      !.requested = Some(logical_size),
                                      !.pending = TRUE,
                                      !.resizes = @ + 1,
                                      !.last_resized = "non-zero",
                                      !.new_events = 0,
                                      !.window_resized = 0 ]
          ELSE /\ engine' = IF logical_size.width = 0 /\ logical_size.height = 0
                            THEN [ engine EXCEPT !.minimized = TRUE ]
                            ELSE engine
               /\ app' = [ app EXCEPT !.window_minimized =
                                          (logical_size.width = 0 /\ logical_size.height = 0),
                                      !.last_resized = "zero",
                                      !.new_events = 0,
                                      !.window_resized = 0 ]
    /\ UNCHANGED << allocator, swapVars, frameVars, resVars, unit, src_image, descriptor, pipeline, gpu_calls >>

\* what Drop for Image calls
ImageDropCalls(obj) ==
    << Call("destroy_image_view", obj), Call("dealloc", obj), Call("destroy_image", obj) >>

\* what Drop for GraphicsPipeline calls
PipelineDropCalls(obj) ==
    << Call("destroy_pipeline", obj), Call("destroy_pipeline_layout", obj) >>

\* Swapchain::recreate: the old objects go, the new ones are made
SwapchainRecreateCalls(depth_stencil_image) ==
    << Call("destroy_sampler", "swapchain"),
       Call("destroy_image_view", "swapchain"),
       Call("destroy_framebuffer", "swapchain"),
       Call("destroy_swapchain", "swapchain") >>
    \o ImageDropCalls("swapchain_hdr_images")
    \o << Call("create_swapchain", "swapchain"),
          Call("create_image", "swapchain_hdr_images"),
          Call("create_sampler", "swapchain") >>
    \o (IF depth_stencil_image.some THEN ImageDropCalls("depth_stencil_image") ELSE << >>)
    \o << Call("create_image_view", "swapchain"),
          Call("create_framebuffer", "swapchain") >>

\* the calls of pipeline.recreate on each pipeline, last index first
RECURSIVE RecreateCalls(_, _)
RecreateCalls(graphics_pipelines, rank) ==
    IF rank = 0 THEN << >>
    ELSE << Call("create_pipeline_layout", graphics_pipelines[rank].pipeline),
            Call("create_graphics_pipelines", graphics_pipelines[rank].pipeline) >>
         \o PipelineDropCalls(graphics_pipelines[rank].pipeline)
         \o RecreateCalls(graphics_pipelines, rank - 1)

\* the driver calls of window_resized, in its order
WindowResizedCalls(e) ==
    << Call("create_image", "depth_image"),
       Call("device_wait_idle", "device") >>
    \o SwapchainRecreateCalls(e.depth_stencil_image)
    \o RecreateCalls(e.graphics_pipelines, Len(e.graphics_pipelines))

\* the first loop of window_resized: the last pipeline is removed, recreated
\* and pushed, until none is left
RECURSIVE RemoveAndRecreate(_, _, _, _)
RemoveAndRecreate(graphics_pipelines, pipeline_vec, new_extent, created) ==
    IF graphics_pipelines = << >> THEN pipeline_vec
    ELSE RemoveAndRecreate(
             SubSeq(graphics_pipelines, 1, Len(graphics_pipelines) - 1),
             Append(pipeline_vec,
                    recreate(graphics_pipelines[Len(graphics_pipelines)], new_extent,
                             created + Len(pipeline_vec) + 1)),
             new_extent, created)

\* Vec::swap
swap(vec, a, b) ==
    [ k \in DOMAIN vec |-> IF k = a THEN vec[b] ELSE IF k = b THEN vec[a] ELSE vec[k] ]

\* a second loop that is never entered
SwapLoopSkipped(pipeline_vec, lo, hi) == pipeline_vec

\* the second loop of window_resized: positions lo and hi are swapped while
\* lo < hi, lo going up and hi going down
RECURSIVE SwapLoop(_, _, _)
SwapLoop(pipeline_vec, lo, hi) ==
    IF lo >= hi THEN pipeline_vec
    ELSE SwapLoop(swap(pipeline_vec, lo, hi), lo + 1, hi - 1)

\* pipeline_vec after the two loops of window_resized
RecreatedPipelines(e) ==
    LET pipeline_vec == RemoveAndRecreate(e.graphics_pipelines, << >>, e.new_extent,
                                          e.pipelines_created)
    IN  SwapLoop(pipeline_vec, 1, Len(pipeline_vec))

\* window_resized on an engine that holds any number of pipelines, pipeline k
\* built for subpass k - 1
CallWindowResized ==
    /\ unit = NoCall
    /\ \E extent \in Extents, new_extent \in Extents, pipelines \in 0 .. MaxPipelineList :
          LET e == [ graphics_pipelines |->
                         [ k \in 1 .. pipelines |-> build(BasicBuilder(extent, k - 1), k) ],
                     new_extent |-> new_extent,
                     pipelines_created |-> pipelines ]
          IN  unit' = [ fn |-> "window_resized",
                        self |-> e,
                        graphics_pipelines |-> RecreatedPipelines(e) ]
    /\ UNCHANGED << frameVars, resVars, src_image, objVars >>

UnitNext ==
    \/ CallDispach
    \/ CallGetMipSize
    \/ CallDeviceNew
    \/ CallCreateLogicalDevice
    \/ CallShaderModuleNew
    \/ CallWindowResized

\* the engine when window_resized returns
window_resized(e) ==
    [ e EXCEPT !.surface_resolution = e.new_extent,
               !.window_extent = e.new_extent,
               !.swapchain_extent = e.new_extent,
               !.depth_stencil_image = IF @.some THEN Some(e.new_extent) ELSE @,
               !.graphics_pipelines = RecreatedPipelines(e),
               !.pipelines_created = @ + Len(e.graphics_pipelines) ]

\* a NewEvents handler that resizes as soon as the flag is set
ResizeIsDueAtOnce(e) == e.resized

\* the condition under which NewEvents calls window_resized
ResizeIsDue(e) == e.resized /\ e.old_extent = e.new_extent

\* a count that stops at cap
UpTo(count, cap) == IF count < cap THEN count + 1 ELSE cap

\* Event::NewEvents; new_events and window_resized count the NewEvents events
\* and the window_resized calls since the last Resized event
NewEvents ==
    /\ app.state = "running"
    /\ app.control_flow = "Poll"
    /\ app.next_event = "NewEvents"
    /\ IF ResizeIsDue(engine)
       THEN /\ engine' = [ window_resized(engine) EXCEPT !.resized = FALSE ]
            /\ gpu_calls' = WindowResizedCalls(engine)
            /\ app' = [ app EXCEPT !.next_event = "WindowEvent",
                                   !.current_image = 0,
                                   !.pending = FALSE,
                                   !.new_events = UpTo(@, MaxNewEvents),
                                   !.window_resized = UpTo(@, 2) ]
       ELSE /\ engine' = IF engine.resized /\ engine.old_extent # engine.new_extent
                         THEN [ engine EXCEPT !.old_extent = engine.new_extent ]
                         ELSE engine
            /\ gpu_calls' = gpu_calls
            /\ app' = [ app EXCEPT !.next_event = "WindowEvent",
                                   !.new_events = UpTo(@, MaxNewEvents) ]
    /\ UNCHANGED << allocator, swapVars, frameVars, resVars, unit, src_image, descriptor, pipeline >>

\* Event::MainEventsCleared: prepare_frame and request_redraw
MainEventsCleared ==
    /\ app.state = "running"
    /\ app.control_flow = "Poll"
    /\ app.next_event = "WindowEvent"
    /\ app' = [ app EXCEPT !.next_event = "RedrawRequested" ]
    /\ UNCHANGED << allocator, swapVars, frameVars, resVars, unit, src_image, descriptor, pipeline, engine,
                    gpu_calls >>

\* a redraw that looks at the minimized flag only
ShouldRenderUnlessMinimized(e) == e.minimized = FALSE

\* the condition under which RedrawRequested renders
ShouldRender(e) == e.resized = FALSE /\ e.minimized = FALSE

\* Event::RedrawRequested: render_func records and submits one frame
RedrawRequested ==
    /\ app.state = "running"
    /\ app.control_flow = "Poll"
    /\ app.next_event = "RedrawRequested"
    /\ app' = [ app EXCEPT
                  !.next_event = "NewEvents",
                  !.current_image = IF ShouldRender(engine) THEN 1 - @ ELSE @,
                  !.rendered = ShouldRender(engine) ]
    /\ UNCHANGED << allocator, swapVars, frameVars, resVars, unit, src_image, descriptor, pipeline, engine,
                    gpu_calls >>

\* the locals of main that own a value when main returns, in declaration order
MainLocals ==
    << "engine", "uniform_buffer", "index_buffer", "vertex_buffer", "downsample_image",
       "compute_module", "renderer", "window" >>

\* a VulkanEngine whose device field is declared before its swapchain
EngineFieldsDeviceEarly ==
    << "fences", "ui_fence", "render_finished_semaphore", "image_available_semaphore",
       "graphics_pipelines", "compute_pipelines", "push_constants", "descriptors",
       "command_builder", "device", "swapchain", "renderpass", "ui_renderpass", "surface",
       "instance", "window" >>

\* the fields of VulkanEngine that own a value, in declaration order
EngineFields ==
    << "fences", "ui_fence", "render_finished_semaphore", "image_available_semaphore",
       "graphics_pipelines", "compute_pipelines", "push_constants", "descriptors",
       "command_builder", "swapchain", "renderpass", "ui_renderpass", "surface", "device",
       "instance", "window" >>

\* locals are dropped in reverse order of declaration, the fields of a struct
\* in order of declaration
RECURSIVE DropOrder(_)
DropOrder(rank) ==
    IF rank = 0 THEN << >>
    ELSE (IF MainLocals[rank] = "engine"
          THEN [ k \in DOMAIN EngineFields |-> [ of |-> "engine", name |-> EngineFields[k] ] ]
          ELSE << [ of |-> "main", name |-> MainLocals[rank] ] >>)
         \o DropOrder(rank - 1)

RECURSIVE PipelinesDropCalls(_, _)
PipelinesDropCalls(graphics_pipelines, rank) ==
    IF rank > Len(graphics_pipelines) THEN << >>
    ELSE PipelineDropCalls(graphics_pipelines[rank].pipeline)
         \o << Call("destroy_shader_module", graphics_pipelines[rank].pipeline) >>
         \o PipelinesDropCalls(graphics_pipelines, rank + 1)

\* the driver and allocator calls of the Drop of each value, its fields included
DropCalls(o, e) ==
    IF o.of = "main"
    THEN CASE o.name \in { "uniform_buffer", "index_buffer", "vertex_buffer" } ->
                << Call("dealloc", o.name), Call("destroy_buffer", o.name) >>
           [] o.name = "downsample_image" ->
                << Call("destroy_sampler", o.name) >> \o ImageDropCalls(o.name)
           [] o.name = "compute_module" -> << Call("destroy_shader_module", o.name) >>
           [] OTHER -> << >>
    ELSE CASE o.name \in { "fences", "ui_fence" } -> << Call("destroy_fence", o.name) >>
           [] o.name \in { "render_finished_semaphore", "image_available_semaphore" } ->
                << Call("destroy_semaphore", o.name) >>
           [] o.name = "graphics_pipelines" -> PipelinesDropCalls(e.graphics_pipelines, 1)
           [] o.name = "compute_pipelines" -> PipelineDropCalls(o.name)
           [] o.name = "descriptors" ->
                << Call("destroy_descriptor_set_layout", o.name),
                   Call("destroy_descriptor_pool", o.name) >>
           [] o.name = "command_builder" -> << Call("destroy_command_pool", o.name) >>
           [] o.name = "swapchain" ->
                << Call("destroy_sampler", o.name),
                   Call("destroy_image_view", o.name),
                   Call("destroy_framebuffer", o.name),
                   Call("destroy_swapchain", o.name) >>
                \o ImageDropCalls("swapchain_hdr_images")
                \o (IF e.depth_stencil_image.some
                    THEN ImageDropCalls("depth_stencil_image") ELSE << >>)
           [] o.name \in { "renderpass", "ui_renderpass" } ->
                << Call("destroy_render_pass", o.name) >>
           [] o.name = "surface" -> << Call("destroy_surface", o.name) >>
           [] o.name = "device" ->
                << Call("cleanup", "allocator"), Call("destroy_device", o.name) >>
           [] o.name = "instance" ->
                << Call("destroy_debug_utils_messenger", o.name),
                   Call("destroy_instance", o.name) >>
           [] OTHER -> << >>

RECURSIVE AllDropCalls(_, _)
AllDropCalls(to_drop, e) ==
    IF to_drop = << >> THEN << >>
    ELSE DropCalls(Head(to_drop), e) \o AllDropCalls(Tail(to_drop), e)

\* run_return returns once the control flow is Exit; main ends and its values
\* are dropped
MainReturns ==
    /\ app.state = "running"
    /\ app.control_flow = "Exit"
    /\ app' = [ app EXCEPT !.state = "returned" ]
    /\ gpu_calls' = AllDropCalls(DropOrder(Len(MainLocals)), engine)
    /\ UNCHANGED << allocator, swapVars, frameVars, resVars, unit, src_image, descriptor, pipeline, engine >>

AppNext ==
    \/ MainStarts
    \/ NewEvents
    \/ Resized
    \/ CloseRequested
    \/ MainEventsCleared
    \/ RedrawRequested
    \/ MainReturns

\* no other engine object is under test
EngineIdle ==
    /\ unit = NoCall
    /\ src_image = NoSource
    /\ descriptor = NoDescriptor
    /\ pipeline = NoPipeline
    /\ engine = NoEngine
    /\ app = NoApp
    /\ gpu_calls = << >>
    /\ swapchain = NoSwapchain
    /\ fences = << >>
    /\ render = NoRender
    /\ driver = NoDriver
    /\ allocator = NoAllocator

(***************************************************************************)
(* The swapchain, the fences and the index of the frame image, across      *)
(* frames and window resizes.                                              *)
(***************************************************************************)
\* numbers of images the presentation engine may create for min_image_count
ImageCounts == NumImages .. NumImages + 1

\* handles first, first + 1, ... of count objects
Handles(first, count) == [ k \in 1 .. count |-> first + k - 1 ]

\* handles a swapchain with count images takes: the swapchain, its images, the
\* HDR images, the sampler, and a view and two framebuffers per image
HandlesOf(count) == 2 + 5 * count

\* the image view and the two framebuffers created for image k
PerImage(first, count, k) == first + 2 + 2 * count + 3 * (k - 1)

\* Swapchain::new: the lists are built from the images the driver returned
SwapchainNew(resolution, count, first) ==
    [ swapchain |-> first,
      swapchain_extent |-> resolution,
      swapchain_images |-> Handles(first + 1, count),
      swapchain_hdr_images |-> Handles(first + 1 + count, count),
      swapchain_image_sampler |-> first + 1 + 2 * count,
      swapchain_image_views |-> [ k \in 1 .. count |-> PerImage(first, count, k) + 1 ],
      swapchain_hdr_framebuffers |-> [ k \in 1 .. count |-> PerImage(first, count, k) ],
      swapchain_framebuffers |-> [ k \in 1 .. count |-> PerImage(first, count, k) + 2 ],
      max_image_in_flight |-> count,
      swapchain_create_info |-> [ min_image_count |-> NumImages,
                                  image_extent |-> resolution,
                                  present_mode |-> "FIFO",
                                  image_array_layers |-> 1,
                                  clipped |-> TRUE ] ]

\* a clear() that leaves the list as it was
clear_nothing(vec) == vec

\* Vec::clear
clear(vec) == << >>

\* Swapchain::recreate: max_image_in_flight is left as Swapchain::new set it
SwapchainRecreate(sc, resolution, count, first) ==
    [ sc EXCEPT
        !.swapchain = first,
        !.swapchain_extent = resolution,
        !.swapchain_images = Handles(first + 1, count),
        !.swapchain_hdr_images = Handles(first + 1 + count, count),
        !.swapchain_image_sampler = first + 1 + 2 * count,
        !.swapchain_image_views =
            clear(@) \o [ k \in 1 .. count |-> PerImage(first, count, k) ],
        !.swapchain_hdr_framebuffers =
            clear(@) \o [ k \in 1 .. count |-> PerImage(first, count, k) + 1 ],
        !.swapchain_framebuffers =
            clear(@) \o [ k \in 1 .. count |-> PerImage(first, count, k) + 2 ],
        !.swapchain_create_info = [ @ EXCEPT !.image_extent = resolution ] ]

\* the destroy loop of recreate, over the image views held
RECURSIVE DestroyPerImage(_, _)
DestroyPerImage(sc, k) ==
    IF k > Len(sc.swapchain_image_views) THEN << >>
    ELSE << Call("destroy_image_view", sc.swapchain_image_views[k]),
            Call("destroy_framebuffer", sc.swapchain_hdr_framebuffers[k]),
            Call("destroy_framebuffer", sc.swapchain_framebuffers[k]) >>
         \o DestroyPerImage(sc, k + 1)

\* the creation loop of recreate, over the new swapchain images
RECURSIVE CreatePerImage(_, _)
CreatePerImage(sc, k) ==
    IF k > Len(sc.swapchain_images) THEN << >>
    ELSE << Call("create_image_view", sc.swapchain_image_views[k]),
            Call("create_framebuffer", sc.swapchain_hdr_framebuffers[k]),
            Call("create_framebuffer", sc.swapchain_framebuffers[k]) >>
         \o CreatePerImage(sc, k + 1)

\* the driver calls of Swapchain::recreate on sc that led to created, in order
RecreateTrace(sc, created) ==
    << Call("destroy_sampler", sc.swapchain_image_sampler) >>
    \o DestroyPerImage(sc, 1)
    \o << Call("destroy_swapchain", sc.swapchain) >>
    \o [ k \in DOMAIN sc.swapchain_hdr_images |->
           Call("destroy_image", sc.swapchain_hdr_images[k]) ]
    \o << Call("create_swapchain", created.swapchain),
          Call("get_swapchain_images", created.swapchain) >>
    \o [ k \in DOMAIN created.swapchain_hdr_images |->
           Call("create_image", created.swapchain_hdr_images[k]) ]
    \o << Call("create_sampler", created.swapchain_image_sampler) >>
    \o CreatePerImage([ created EXCEPT
                          !.swapchain_image_views =
                              SubSeq(@, Len(@) - Len(created.swapchain_images) + 1, Len(@)),
                          !.swapchain_hdr_framebuffers =
                              SubSeq(@, Len(@) - Len(created.swapchain_images) + 1, Len(@)),
                          !.swapchain_framebuffers =
                              SubSeq(@, Len(@) - Len(created.swapchain_images) + 1, Len(@)) ],
                      1)

\* Fence::new: number fences, each created with the SIGNALED flag or without
FenceNew(signaled, number) ==
    [ k \in 1 .. number |-> [ signaled |-> signaled, pending |-> FALSE ] ]

\* a reset that resets nothing
reset_no_fence(fs) == fs

\* vkResetFences on every fence of the engine
reset_fences(fs) == [ k \in DOMAIN fs |-> [ fs[k] EXCEPT !.signaled = FALSE ] ]

\* a fence given to acquire_next_image or queue_submit: a signal is pending
Handed(fs, k) == [ fs EXCEPT ![k].pending = TRUE ]

\* a call that takes fence k, and the state the fence is in at the call
FenceOp(op, fs, k) ==
    [ op |-> op, fence |-> k, signaled |-> fs[k].signaled, pending |-> fs[k].pending ]

\* VulkanEngine::new and the set-up of main: the swapchain, one fence per
\* framebuffer, the bloom images at half the surface resolution, current_image 0
VulkanEngineNew ==
    /\ render.pc = "none"
    /\ \E resolution \in Extents, count \in ImageCounts :
          LET sc == SwapchainNew(resolution, count, driver.next) IN
          /\ swapchain' = sc
          /\ fences' = FenceNew(FALSE, Len(sc.swapchain_framebuffers))
          /\ render' = [ pc |-> "idle",
                         current_image |-> 0,
                         current_image_save |-> 0,
                         surface_resolution |-> resolution,
                         bloom_images |-> [ width |-> resolution.width \div 2,
                                            height |-> resolution.height \div 2 ],
                         frames |-> 0,
                         resizes |-> 0,
                         fence_ops |-> << >>,
                         recorded |-> None ]
          /\ driver' = [ next |-> driver.next + HandlesOf(count),
                         calls |-> << >>,
                         created_with |-> sc.swapchain_create_info,
                         previous |-> NoSwapchain ]
    /\ UNCHANGED << frameVars, resVars, unit, src_image, descriptor, pipeline, engine, app,
                    gpu_calls, allocator >>

\* render_func up to acquire_next_image: the fence and the framebuffers are
\* selected by the index main holds, the acquired index is stored for bloom
RenderAcquire ==
    /\ render.pc = "idle"
    /\ render.frames < MaxFrames
    /\ IF render.current_image_save >= Len(fences)
       THEN /\ render' = [ render EXCEPT !.pc = "panicked",
                                         !.current_image = render.current_image_save ]
            /\ fences' = fences
       ELSE \E tmp \in 0 .. Len(swapchain.swapchain_images) - 1 :
               /\ fences' = Handed(fences, render.current_image_save + 1)
               /\ render' = [ render EXCEPT
                                !.pc = "acquired",
                                !.current_image = render.current_image_save,
                                !.current_image_save = tmp,
                                !.recorded = None,
                                !.fence_ops = << FenceOp("acquire_next_image", fences,
                                                         render.current_image_save + 1) >> ]
    /\ UNCHANGED << swapchain, driver >>
    /\ UNCHANGED << frameVars, resVars, unit, src_image, descriptor, pipeline, engine, app,
                    gpu_calls, allocator >>

\* render_func from the render pass begin infos to the first wait_for_fences:
\* indexing a list past its end panics; bloom dispatches over the bloom images
\* and, for APPLY, over the surface resolution
RenderRecord ==
    /\ render.pc = "acquired"
    /\ IF \/ render.current_image >= Len(swapchain.swapchain_framebuffers)
          \/ render.current_image_save >= Len(swapchain.swapchain_image_views)
       THEN render' = [ render EXCEPT !.pc = "panicked" ]
       ELSE render' = [ render EXCEPT
                          !.pc = "wait_acquired",
                          !.recorded = Some([ bloom |-> render.bloom_images,
                                              apply |-> render.surface_resolution ]),
                          !.fence_ops = Append(@, FenceOp("wait_for_fences", fences,
                                                          render.current_image + 1)) ]
    /\ UNCHANGED << swapchain, fences, driver >>
    /\ UNCHANGED << frameVars, resVars, unit, src_image, descriptor, pipeline, engine, app,
                    gpu_calls, allocator >>

\* the first wait returns; reset_fences, queue_submit with the same fence,
\* queue_present, and the second wait_for_fences is entered
RenderSubmit ==
    /\ render.pc = "wait_acquired"
    /\ fences[render.current_image + 1].signaled
    /\ LET reset == reset_fences(fences)
           k == render.current_image + 1
       IN /\ fences' = Handed(reset, k)
          /\ render' = [ render EXCEPT
                           !.pc = "wait_submitted",
                           !.fence_ops = @ \o << FenceOp("queue_submit", reset, k),
                                                 FenceOp("wait_for_fences",
                                                         Handed(reset, k), k) >> ]
    /\ UNCHANGED << swapchain, driver >>
    /\ UNCHANGED << frameVars, resVars, unit, src_image, descriptor, pipeline, engine, app,
                    gpu_calls, allocator >>

\* the second wait returns; reset_fences, device_wait_idle, the command buffer
\* is freed and current_image advances modulo max_image_in_flight
RenderReturn ==
    /\ render.pc = "wait_submitted"
    /\ fences[render.current_image + 1].signaled
    /\ fences' = reset_fences(fences)
    /\ render' = [ render EXCEPT
                     !.pc = "idle",
                     !.frames = @ + 1,
                     !.current_image_save = (@ + 1) % swapchain.max_image_in_flight ]
    /\ UNCHANGED << swapchain, driver >>
    /\ UNCHANGED << frameVars, resVars, unit, src_image, descriptor, pipeline, engine, app,
                    gpu_calls, allocator >>

\* the device or the presentation engine signals a fence it was handed
GpuSignals ==
    /\ \E k \in DOMAIN fences :
          /\ fences[k].pending
          /\ fences' = [ fences EXCEPT ![k] = [ signaled |-> TRUE, pending |-> FALSE ] ]
    /\ UNCHANGED << swapchain, render, driver >>
    /\ UNCHANGED << frameVars, resVars, unit, src_image, descriptor, pipeline, engine, app,
                    gpu_calls, allocator >>

\* window_resized between two frames: current_image 0, the surface resolution
\* becomes new_extent, the swapchain is recreated with the images the driver
\* returns; the fences and the bloom images are the ones built at start-up
SwapchainResized ==
    /\ render.pc = "idle"
    /\ render.resizes < MaxRecreate
    /\ \E new_extent \in Extents, count \in ImageCounts :
          LET created == SwapchainRecreate(swapchain, new_extent, count, driver.next) IN
          /\ swapchain' = created
          /\ render' = [ render EXCEPT !.current_image_save = 0,
                                       !.surface_resolution = new_extent,
                                       !.resizes = @ + 1 ]
          /\ driver' = [ next |-> driver.next + HandlesOf(count),
                         calls |-> RecreateTrace(swapchain, created),
                         created_with |-> created.swapchain_create_info,
                         previous |-> swapchain ]
    /\ UNCHANGED fences
    /\ UNCHANGED << frameVars, resVars, unit, src_image, descriptor, pipeline, engine, app,
                    gpu_calls, allocator >>

\* the engine is built for the largest window
LargestWindow ==
    VulkanEngineNew /\ swapchain'.swapchain_extent = [ width |-> MaxWindow, height |-> MaxWindow ]

\* window_resized runs for the extent the window has
SameExtent == SwapchainResized /\ swapchain'.swapchain_extent = swapchain.swapchain_extent

FencesNext ==
    \/ LargestWindow
    \/ RenderAcquire
    \/ RenderRecord
    \/ RenderSubmit
    \/ RenderReturn
    \/ GpuSignals
    \/ SameExtent

(***************************************************************************)
(* The allocator's mutex: Arc<Mutex<GpuAllocator>>, locked by the one      *)
(* thread of the program around each allocator call.                       *)
(***************************************************************************)
\* a guard that is kept after the call
LockedCallKeepsGuard(call) == << "lock", call >>

\* allocator.lock().expect(..).call(..): the guard is a temporary of the
\* statement and is dropped at its end
LockedCall(call) == << "lock", call, "unlock" >>

AllocatorCalls == { "alloc", "dealloc", "cleanup" }

\* the operations that reach the allocator
AllocatorOperations ==
    { "Buffer::new", "Drop for Buffer", "Image::new", "Drop for Image", "write_to_vram",
      "Drop for Device" }

\* the driver calls and the locked allocator call of each operation, in order;
\* a transfer creates its staging buffer, copies, and drops it on return
StepsOf(operation) ==
    LET buffer_new == << "create_buffer" >> \o LockedCall("alloc") \o << "bind_buffer_memory" >>
        buffer_drop == LockedCall("dealloc") \o << "destroy_buffer" >>
    IN  CASE operation = "Buffer::new" -> buffer_new
          [] operation = "Drop for Buffer" -> buffer_drop
          [] operation = "Image::new" ->
                << "create_image" >> \o LockedCall("alloc") \o << "bind_image_memory" >>
          [] operation = "Drop for Image" ->
                << "destroy_image_view" >> \o LockedCall("dealloc") \o << "destroy_image" >>
          [] operation = "write_to_vram" ->
                buffer_new \o << "queue_submit", "queue_wait_idle" >> \o buffer_drop
          [] operation = "Drop for Device" -> LockedCall("cleanup") \o << "destroy_device" >>

\* Device::new: the allocator is created and put behind its mutex
AllocatorNew ==
    /\ allocator.state = "none"
    /\ allocator' = [ state |-> "ready", locked |-> FALSE, poisoned |-> FALSE,
                      todo |-> << >>, ops |-> << >>, operation |-> "Device::new",
                      buffers |-> 0, images |-> 0 ]
    /\ UNCHANGED << frameVars, resVars, unit, src_image, descriptor, pipeline, engine, app,
                    gpu_calls, swapVars >>

\* the thread enters one operation: resources are created while fewer than
\* MaxLive exist, used and dropped while they exist, the device is dropped last
AllocatorBegin ==
    /\ allocator.state = "ready"
    /\ allocator.todo = << >>
    /\ \E operation \in AllocatorOperations :
          /\ operation = "Buffer::new" => allocator.buffers < MaxLive
          /\ operation = "Image::new" => allocator.images < MaxLive
          /\ operation = "Drop for Buffer" => allocator.buffers > 0
          /\ operation = "Drop for Image" => allocator.images > 0
          /\ operation = "write_to_vram" => allocator.buffers + allocator.images > 0
          /\ operation = "Drop for Device" => allocator.buffers + allocator.images = 0
          /\ allocator' = [ allocator EXCEPT
                              !.operation = operation,
                              !.todo = StepsOf(operation),
                              !.ops = << >>,
                              !.buffers = CASE operation = "Buffer::new" -> @ + 1
                                            [] operation = "Drop for Buffer" -> @ - 1
                                            [] OTHER -> @,
                              !.images = CASE operation = "Image::new" -> @ + 1
                                           [] operation = "Drop for Image" -> @ - 1
                                           [] OTHER -> @ ]
    /\ UNCHANGED << frameVars, resVars, unit, src_image, descriptor, pipeline, engine, app,
                    gpu_calls, swapVars >>

\* the next step of the operation.  lock() on a poisoned mutex returns Err and
\* expect panics; lock() by the thread that holds the mutex deadlocks or
\* panics; an alloc that fails panics with the guard alive, which poisons the
\* mutex as the guard is dropped, and the unwinding then drops the device
AllocatorStep ==
    /\ allocator.state \in { "ready", "unwinding" }
    /\ allocator.todo # << >>
    /\ LET step == Head(allocator.todo)
           rest == Tail(allocator.todo)
           after == [ allocator EXCEPT !.todo = rest ]
       IN  CASE step = "lock" ->
                  IF allocator.poisoned
                  THEN allocator' = [ after EXCEPT !.state = "aborted", !.todo = << >> ]
                  ELSE IF allocator.locked
                  THEN \E outcome \in { "deadlock", "panicked" } :
                          allocator' = [ after EXCEPT !.state = outcome, !.todo = << >>,
                                                      !.ops = Append(@, [ op |-> "lock",
                                                                          held |-> TRUE ]) ]
                  ELSE allocator' = [ after EXCEPT !.locked = TRUE ]
             [] step = "unlock" -> allocator' = [ after EXCEPT !.locked = FALSE ]
             [] step \in AllocatorCalls ->
                  \/ allocator' = [ after EXCEPT
                                      !.ops = Append(@, [ op |-> step,
                                                          held |-> allocator.locked ]) ]
                  \/ /\ step = "alloc"
                     /\ allocator' = [ after EXCEPT
                                         !.ops = Append(@, [ op |-> step,
                                                             held |-> allocator.locked ]),
                                         !.state = "unwinding",
                                         !.poisoned = allocator.locked,
                                         !.locked = FALSE,
                                         !.todo = StepsOf("Drop for Device") ]
             [] step = "destroy_device" -> allocator' = [ after EXCEPT !.state = "dropped" ]
             [] OTHER -> allocator' = after
    /\ UNCHANGED << frameVars, resVars, unit, src_image, descriptor, pipeline, engine, app,
                    gpu_calls, swapVars >>

AllocatorNext ==
    \/ AllocatorNew
    \/ AllocatorBegin
    \/ AllocatorStep

\* a storage-image array that ends with the last mip view
output_without_frame_image(frame_image) ==
    [ k \in 1 .. 3 * BLOOM_MIP_COUNT |->
        [ image |-> (k - 1) \div BLOOM_MIP_COUNT, mip |-> (k - 1) % BLOOM_MIP_COUNT ] ]

\* update_descriptor, binding 0: the mip views of bloom image 0, 1 and 2, mip
\* by mip, then the view of the frame image
output_image_descr_info(frame_image) ==
    [ k \in 1 .. 3 * BLOOM_MIP_COUNT |->
        [ image |-> (k - 1) \div BLOOM_MIP_COUNT, mip |-> (k - 1) % BLOOM_MIP_COUNT ] ]
    \o << [ image |-> 3, mip |-> 0, swapchain_image_view |-> frame_image ] >>

\* update_descriptor, bindings 1 and 2: the three bloom images with all their
\* mips, then the frame image, which has one
input_image_descr_info(frame_image) ==
    [ k \in 1 .. 3 |-> [ image |-> k - 1, mips |-> BLOOM_MIP_COUNT ] ]
    \o << [ image |-> 3, mips |-> 1, swapchain_image_view |-> frame_image ] >>

\* Vecs of addressing words, the empty one included
RECURSIVE Vecs(_)
Vecs(len) ==
    IF len = 0 THEN { << >> }
    ELSE LET shorter == Vecs(len - 1)
         IN  shorter \cup { Append(v, w) : v \in shorter,
                                           w \in { Word(PrefilterFields), Word(ApplyFields) } }

\* PushConstant::new, then set_data, each with a Vec of its own
CallSetData ==
    /\ unit = NoCall
    /\ \E size \in { 4, 8 }, first, data \in Vecs(MaxVec) :
          LET constructed == PushConstantOf(0, size, "COMPUTE", first) IN
          unit' = [ fn |-> "set_data",
                    size |-> size,
                    first |-> first,
                    self |-> constructed,
                    data |-> data,
                    result |-> set_data(constructed, data) ]
    /\ UNCHANGED << frameVars, resVars, src_image, objVars >>

\* push constants on their own before the first frame, and in the frames
PushCalls == pc = "idle" /\ frame = 0 /\ CallSetData

PushFrames == unit = NoCall /\ FrameNext

PushNext ==
    \/ PushCalls
    \/ PushFrames

SwapchainNext ==
    \/ VulkanEngineNew
    \/ RenderAcquire
    \/ RenderRecord
    \/ RenderSubmit
    \/ RenderReturn
    \/ GpuSignals
    \/ SwapchainResized

(***************************************************************************)
(* Specifications: the frame loop, the life cycle of one resource, and     *)
(* single calls of functions.                                              *)
(***************************************************************************)
Init == FrameInit /\ ResIdle /\ EngineIdle

Next == FrameNext

Spec == Init /\ [][Next]_vars

InitFaults == FrameInit /\ ResIdle /\ EngineIdle

NextFaults == FaultsNext

SpecFaults == InitFaults /\ [][NextFaults]_vars

InitResource == ResInit /\ FrameIdle /\ EngineIdle

NextResource == ResNext

SpecResource == InitResource /\ [][NextResource]_vars

InitUnit == FrameIdle /\ ResIdle /\ EngineIdle

NextUnit == UnitNext

SpecUnit == InitUnit /\ [][NextUnit]_vars

InitEngine == FrameIdle /\ ResIdle /\ EngineIdle

NextEngine == EngineNext

SpecEngine == InitEngine /\ [][NextEngine]_vars

InitPipeline == FrameIdle /\ ResIdle /\ EngineIdle

NextPipeline == PipelineNext

SpecPipeline == InitPipeline /\ [][NextPipeline]_vars

InitApp == FrameIdle /\ ResIdle /\ EngineIdle

NextApp == AppNext

SpecApp == InitApp /\ [][NextApp]_vars

InitAllocator == FrameIdle /\ ResIdle /\ EngineIdle

NextAllocator == AllocatorNext

SpecAllocator == InitAllocator /\ [][NextAllocator]_vars

InitPush == FrameInit /\ ResIdle /\ EngineIdle

NextPush == PushNext

SpecPush == InitPush /\ [][NextPush]_vars

InitSwapchain == FrameIdle /\ ResIdle /\ EngineIdle

NextSwapchain == SwapchainNext

SpecSwapchain == InitSwapchain /\ [][NextSwapchain]_vars

\* the frames and the resizes of a window of one extent; the device signals
\* every fence it was handed, and a wait returns once its fence is signaled
NextFences == FencesNext

SpecFences ==
    /\ InitSwapchain
    /\ [][NextFences]_vars
    /\ WF_vars(GpuSignals)
    /\ WF_vars(RenderSubmit)
    /\ WF_vars(RenderReturn)

(***************************************************************************)
(* Observers of the recorded command stream.                               *)
(***************************************************************************)
Indices(op) == { k \in DOMAIN cmds : cmds[k].op = op }

\* the indices of the commands `op`, in recording order
RECURSIVE Ordered(_)
Ordered(S) ==
    IF S = {} THEN << >>
    ELSE LET k == CHOOSE x \in S : \A y \in S : x <= y
         IN  << k >> \o Ordered(S \ {k})

\* the addressing word in force at command k: the last one pushed before it
PushBefore(k) ==
    CHOOSE j \in Indices("push_constants") :
        j < k /\ \A l \in Indices("push_constants") : l < k => l <= j

WordOf(k) == Decode(FromBytes(cmds[PushBefore(k)].data))

\* the decoded addressing words of the dispatches, in recording order
DispatchWords ==
    LET idx == Ordered(Indices("dispatch"))
    IN  [ n \in DOMAIN idx |-> WordOf(idx[n]) ]

CountMode(m) == Cardinality({ k \in Indices("dispatch") : WordOf(k).mode = m })

IsComputeBarrier(c) ==
    /\ c.op = "pipeline_barrier"
    /\ c.src_stage = "COMPUTE_SHADER"
    /\ c.dst_stage = "COMPUTE_SHADER"
    /\ Len(c.memory) = 1
    /\ Len(c.image) = 0

BloomReturned == pc = "ui"

(***************************************************************************)
(* C1 (as stated): one bloom call records exactly one PREFILTER dispatch,  *)
(* 2*(N-1) DOWNSAMPLE dispatches, N-1 upsample-stage dispatches            *)
(* (UPSAMPLE_FIRST and UPSAMPLE together) and one APPLY dispatch.          *)
(***************************************************************************)
C1_UpsampleStageHasNMinus1 ==
    BloomReturned =>
        /\ CountMode(MODE_PREFILTER) = 1
        /\ CountMode(MODE_DOWNSAMPLE) = 2 * (BLOOM_MIP_COUNT - 1)
        /\ CountMode(MODE_UPSAMPLE_FIRST) + CountMode(MODE_UPSAMPLE) = BLOOM_MIP_COUNT - 1
        /\ CountMode(MODE_APPLY) = 1

(***************************************************************************)
(* C1 (amended): one bloom call records exactly one PREFILTER dispatch,    *)
(* 2*(N-1) DOWNSAMPLE dispatches, N upsample-stage dispatches (one         *)
(* UPSAMPLE_FIRST and N-1 UPSAMPLE) and one APPLY dispatch: 3*N in all.    *)
(***************************************************************************)
C1_DispatchCounts ==
    BloomReturned =>
        /\ CountMode(MODE_PREFILTER) = 1
        /\ CountMode(MODE_DOWNSAMPLE) = 2 * (BLOOM_MIP_COUNT - 1)
        /\ CountMode(MODE_UPSAMPLE_FIRST) = 1
        /\ CountMode(MODE_UPSAMPLE) = BLOOM_MIP_COUNT - 1
        /\ CountMode(MODE_UPSAMPLE_FIRST) + CountMode(MODE_UPSAMPLE) = BLOOM_MIP_COUNT
        /\ CountMode(MODE_APPLY) = 1
        /\ Cardinality(Indices("dispatch")) = 3 * BLOOM_MIP_COUNT

C1_Witness ==
    /\ BloomReturned
    /\ CountMode(MODE_UPSAMPLE) = 6
    /\ CountMode(MODE_DOWNSAMPLE) = 12

(***************************************************************************)
(* C2: the dispatches of one bloom call are recorded in the order          *)
(* PREFILTER (mip 0); DOWNSAMPLE for levels 1..N-1 ascending, ping before  *)
(* pong; UPSAMPLE_FIRST (source mip N-2); UPSAMPLE with source mip N-2     *)
(* down to 0; APPLY.  Every prefix of the stream is a prefix of that       *)
(* order, so no earlier stage is recorded after a later one.               *)
(***************************************************************************)
ExpectedPass(n) ==
    IF n = 1 THEN [ mode |-> MODE_PREFILTER, lod |-> 0, half |-> "none", level |-> 0 ]
    ELSE IF n <= 2 * BLOOM_MIP_COUNT - 1
         THEN [ mode |-> MODE_DOWNSAMPLE,
                lod |-> IF n % 2 = 0 THEN (n \div 2) - 1 ELSE n \div 2,
                half |-> IF n % 2 = 0 THEN "ping" ELSE "pong",
                level |-> n \div 2 ]
    ELSE IF n = 2 * BLOOM_MIP_COUNT
         THEN [ mode |-> MODE_UPSAMPLE_FIRST, lod |-> BLOOM_MIP_COUNT - 2,
                half |-> "none", level |-> 0 ]
    ELSE IF n <= 3 * BLOOM_MIP_COUNT - 1
         THEN [ mode |-> MODE_UPSAMPLE, lod |-> 3 * BLOOM_MIP_COUNT - 1 - n,
                half |-> "none", level |-> 0 ]
    ELSE [ mode |-> MODE_APPLY, lod |-> 0, half |-> "none", level |-> 0 ]

\* ping reads intermediate image 0, pong reads intermediate image 1
HalfOf(w) ==
    IF w.mode # MODE_DOWNSAMPLE THEN "none" ELSE IF w.in = 0 THEN "ping" ELSE "pong"

LevelOf(w) == IF w.mode # MODE_DOWNSAMPLE THEN 0 ELSE w.out % BLOOM_MIP_COUNT

C2_FixedOrder ==
    /\ Len(DispatchWords) <= 3 * BLOOM_MIP_COUNT
    /\ \A n \in DOMAIN DispatchWords :
          LET w == DispatchWords[n]
              e == ExpectedPass(n)
          IN  /\ w.mode = e.mode
              /\ w.lod = e.lod
              /\ HalfOf(w) = e.half
              /\ LevelOf(w) = e.level
    /\ \A m, n \in DOMAIN DispatchWords :
          m < n => DispatchWords[m].mode <= DispatchWords[n].mode
    /\ BloomReturned => Len(DispatchWords) = 3 * BLOOM_MIP_COUNT

C2_Witness ==
    /\ BloomReturned
    /\ DispatchWords[1].mode = MODE_PREFILTER
    /\ DispatchWords[2 * BLOOM_MIP_COUNT].mode = MODE_UPSAMPLE_FIRST
    /\ DispatchWords[3 * BLOOM_MIP_COUNT].mode = MODE_APPLY

(***************************************************************************)
(* C3: every addressing word recorded by bloom equals                      *)
(* mode*2^28 + lod*2^21 + in*2^14 + out*2^7 + flag of the operands it was  *)
(* built from, with mode < 16 and every other operand < 128, and decoding  *)
(* it with the 4/7/7/7/7 layout returns exactly those operands.            *)
(***************************************************************************)
C3_PackedWord ==
    LET pushes == Ordered(Indices("push_constants"))
    IN  /\ Len(pushes) = Len(operands)
        /\ \A n \in DOMAIN pushes :
              LET f == operands[n]
                  w == FromBytes(cmds[pushes[n]].data)
              IN  /\ Len(cmds[pushes[n]].data) = 4
                  /\ f.mode \in 0 .. 15
                  /\ f.lod \in 0 .. 127
                  /\ f.in \in 0 .. 127
                  /\ f.out \in 0 .. 127
                  /\ f.bloom \in 0 .. 127
                  /\ w = f.mode * Pow2(28) + f.lod * Pow2(21) + f.in * Pow2(14)
                          + f.out * Pow2(7) + f.bloom
                  /\ Decode(w) = f

C3_Witness ==
    /\ BloomReturned
    /\ Len(operands) = 3 * BLOOM_MIP_COUNT
    /\ \E k \in Indices("push_constants") :
          Decode(FromBytes(cmds[k].data)) =
              [ mode |-> 4, lod |-> 0, in |-> 3, out |-> 21, bloom |-> 2 ]

(***************************************************************************)
(* C4: at every level l in 1..N-1 the ping dispatch reads intermediate     *)
(* image 0 at mip l-1 and writes slot 1*N+l, the pong dispatch reads       *)
(* intermediate image 1 at mip l and writes slot 0*N+l; no DOWNSAMPLE      *)
(* dispatch reads the image it writes, and the two images swap roles       *)
(* between the ping and the pong of a level.                               *)
(***************************************************************************)
DownsampleWords ==
    LET idx == Ordered({ k \in Indices("dispatch") : WordOf(k).mode = MODE_DOWNSAMPLE })
    IN  [ n \in DOMAIN idx |-> WordOf(idx[n]) ]

C4_PingPong ==
    /\ \A n \in DOMAIN DownsampleWords :
          LET w == DownsampleWords[n]
              l == (n + 1) \div 2
          IN  /\ l \in 1 .. BLOOM_MIP_COUNT - 1
              /\ n % 2 = 1 => /\ w.in = 0
                              /\ w.lod = l - 1
                              /\ w.out = 1 * BLOOM_MIP_COUNT + l
              /\ n % 2 = 0 => /\ w.in = 1
                              /\ w.lod = l
                              /\ w.out = 0 * BLOOM_MIP_COUNT + l
              /\ w.out \div BLOOM_MIP_COUNT \in {0, 1}
              /\ w.in # w.out \div BLOOM_MIP_COUNT
              /\ (n % 2 = 0) =>
                    /\ DownsampleWords[n - 1].in = w.out \div BLOOM_MIP_COUNT
                    /\ DownsampleWords[n - 1].out \div BLOOM_MIP_COUNT = w.in
    /\ pc \in {"upsample_first", "upsample", "apply", "bloom_exit", "ui"} =>
          Len(DownsampleWords) = 2 * (BLOOM_MIP_COUNT - 1)

C4_Witness ==
    /\ pc = "upsample_first"
    /\ Len(DownsampleWords) = 12
    /\ DownsampleWords[11].out = 13
    /\ DownsampleWords[12].out = 6

(***************************************************************************)
(* C5: every dispatch recorded by bloom is immediately followed by exactly *)
(* one compute-to-compute memory barrier; there are as many such barriers  *)
(* as dispatches, and no two dispatches without a barrier between them.    *)
(***************************************************************************)
C5_BarrierAfterEveryDispatch ==
    /\ \A k \in Indices("dispatch") :
          /\ k + 1 \in DOMAIN cmds
          /\ IsComputeBarrier(cmds[k + 1])
          /\ k + 2 \in DOMAIN cmds => ~ IsComputeBarrier(cmds[k + 2])
    /\ Cardinality({ k \in DOMAIN cmds : IsComputeBarrier(cmds[k]) })
          = Cardinality(Indices("dispatch"))
    /\ \A j, k \in Indices("dispatch") :
          j < k => \E b \in j + 1 .. k - 1 : IsComputeBarrier(cmds[b])

C5_Witness ==
    /\ BloomReturned
    /\ Cardinality({ k \in DOMAIN cmds : IsComputeBarrier(cmds[k]) }) = 21

(***************************************************************************)
(* C6: the memory barrier recorded after each bloom dispatch is a          *)
(* read-after-write dependency: its source access scope contains memory    *)
(* writes and its destination access scope contains memory reads.          *)
(***************************************************************************)
C6_BarrierIsReadAfterWrite ==
    \A k \in DOMAIN cmds :
        IsComputeBarrier(cmds[k]) =>
            /\ "MEMORY_WRITE" \in cmds[k].memory[1].src_access_mask
            /\ "MEMORY_READ" \in cmds[k].memory[1].dst_access_mask

(***************************************************************************)
(* C7: in every bloom call the frame image is transitioned from the        *)
(* presentation layout to GENERAL (color-attachment output to compute      *)
(* shader) before the first dispatch and back to the presentation layout   *)
(* (compute shader to bottom of pipe) after the barrier of APPLY; it is in *)
(* GENERAL at every dispatch, and on return it is in the layout it had on  *)
(* entry.                                                                  *)
(***************************************************************************)
InBloomPasses ==
    pc \in {"prefilter", "ping", "pong", "upsample_first", "upsample", "apply", "bloom_exit"}

C7_FrameImageLayout ==
    /\ InBloomPasses =>
          /\ swapchain_layout[current_image_save] = "GENERAL"
          /\ layout_on_entry = "PRESENT_SRC_KHR"
          /\ \E b \in DOMAIN cmds :
                /\ cmds[b] = CmdImageBarrier("COLOR_ATTACHMENT_OUTPUT", "COMPUTE_SHADER",
                                 {"COLOR_ATTACHMENT_WRITE"}, {"MEMORY_WRITE", "MEMORY_READ"},
                                 current_image_save, "PRESENT_SRC_KHR", "GENERAL")
                /\ \A k \in Indices("dispatch") : b < k
    /\ BloomReturned =>
          /\ cmds[Len(cmds)].op = "pipeline_barrier"
          /\ cmds[Len(cmds)].src_stage = "COMPUTE_SHADER"
          /\ cmds[Len(cmds)].dst_stage = "BOTTOM_OF_PIPE"
          /\ Len(cmds[Len(cmds)].image) = 1
          /\ cmds[Len(cmds)].image[1].image = current_image_save
          /\ cmds[Len(cmds)].image[1].old_layout = "GENERAL"
          /\ cmds[Len(cmds)].image[1].new_layout = "PRESENT_SRC_KHR"
          /\ IsComputeBarrier(cmds[Len(cmds) - 1])
          /\ WordOf(Len(cmds) - 2).mode = MODE_APPLY
          /\ swapchain_layout[current_image_save] = "PRESENT_SRC_KHR"
          /\ swapchain_layout[current_image_save] = layout_on_entry

(***************************************************************************)
(* Observers of the log of driver and allocator calls.                     *)
(***************************************************************************)
CallsOf(call, obj) == { k \in DOMAIN calls : calls[k].call = call /\ calls[k].obj = obj }

\* the last n calls of the log
LastCalls(n) == SubSeq(calls, Len(calls) - n + 1, Len(calls))

ViewsCreated == { calls[k].obj : k \in { j \in DOMAIN calls : calls[j].call = "create_image_view" } }

ViewsDestroyed == { calls[k].obj : k \in { j \in DOMAIN calls : calls[j].call = "destroy_image_view" } }

(***************************************************************************)
(* C8: when a Buffer or an Image is dropped, its memory block is returned  *)
(* to the allocator exactly once and strictly before its native handle is  *)
(* destroyed; an Image destroys its sampler (if present), every mip view,  *)
(* the default view, then returns the block, then destroys the image.      *)
(***************************************************************************)
C8_DestructionOrder ==
    /\ \A k \in DOMAIN calls :
          calls[k].call \in {"destroy_buffer", "destroy_image"} =>
              /\ Cardinality(CallsOf("dealloc", calls[k].obj)) = 1
              /\ Cardinality(CallsOf(calls[k].call, calls[k].obj)) = 1
              /\ \A d \in CallsOf("dealloc", calls[k].obj) :
                    /\ d < k
                    /\ \E a \in CallsOf("alloc", calls[k].obj) :
                          a < d /\ calls[a].block = calls[d].block
    /\ rpc = "buffer_dropped" =>
          /\ LastCalls(2)[1].call = "dealloc"
          /\ LastCalls(2)[1].obj = buffer.buffer
          /\ LastCalls(2)[2] = Call("destroy_buffer", buffer.buffer)
          /\ ~ buffer.block.some
          /\ blocks = {}
    /\ rpc = "image_dropped" =>
          LET views == Len(image.mip_image_views)
              s == IF image.image_sampler.some THEN 1 ELSE 0
              last == LastCalls(s + views + 3)
          IN  /\ image.image_sampler.some =>
                    last[1] = Call("destroy_sampler", image.image_sampler.val)
              /\ \A n \in 1 .. views :
                    last[s + n] = Call("destroy_image_view", image.mip_image_views[n])
              /\ last[s + views + 1] = Call("destroy_image_view", image.image_view)
              /\ last[s + views + 2].call = "dealloc"
              /\ last[s + views + 2].obj = image.image
              /\ last[s + views + 3] = Call("destroy_image", image.image)
              /\ ViewsDestroyed = ViewsCreated
              /\ Cardinality(ViewsCreated) = views + 1
              /\ CallsOf("create_sampler", IF s = 1 THEN image.image_sampler.val ELSE 0) # {}
                    <=> CallsOf("destroy_sampler", IF s = 1 THEN image.image_sampler.val ELSE 0) # {}
              /\ ~ image.block.some
              /\ blocks = {}

C8_Witness ==
    /\ rpc = "image_dropped"
    /\ image.image_sampler.some
    /\ Len(image.mip_image_views) = 7
    /\ calls[Len(calls)].call = "destroy_image"
    /\ calls[Len(calls) - 1].call = "dealloc"

(***************************************************************************)
(* C9: for a payload whose byte size equals the buffer's logical size,     *)
(* write_to_vram(0, payload) followed by read_from_vram(0) returns         *)
(* contents byte-identical to the payload: same length, same bytes.        *)
(***************************************************************************)
C9_RoundTrip ==
    (rpc = "read" /\ Len(payload) = buffer.data_size) =>
        /\ Len(readback) = Len(payload)
        /\ readback = payload

(***************************************************************************)
(* C10: Buffer::new with uniform-buffer usage and requested size S creates *)
(* a buffer whose logical size is the smallest multiple of 64 that is >= S *)
(* (S itself when S is a multiple of 64); without uniform usage the        *)
(* logical size is S.                                                      *)
(***************************************************************************)
SmallestMultipleOf64(s) ==
    CHOOSE m \in s .. s + 63 : m % 64 = 0

C10_UniformRoundedTo64 ==
    rpc = "buffer_alive" =>
        /\ buffer.uniform => buffer.data_size = SmallestMultipleOf64(requested_size)
        /\ ~ buffer.uniform => buffer.data_size = requested_size

(***************************************************************************)
(* C11: for any extent (w, h) the grid of a bloom dispatch is              *)
(* (ceil(w/8), ceil(h/4), 1): w/8 and h/4 when w and h are multiples of 8  *)
(* and 4, one group more in a dimension that leaves a remainder; the grid  *)
(* covers every texel of the extent and has no group wholly outside it.    *)
(***************************************************************************)
\* the smallest number of groups of n texels that hold x texels
CeilDiv(x, n) == CHOOSE g \in 0 .. x : g * n >= x /\ \A f \in 0 .. x : f * n >= x => g <= f

C11_DispatchGrid ==
    unit.fn = "dispach" =>
        LET w == unit.image_size[1]
            h == unit.image_size[2]
            d == unit.cmds[1]
        IN  /\ d.op = "dispatch"
            /\ d.x = CeilDiv(w, 8)
            /\ d.y = CeilDiv(h, 4)
            /\ d.z = 1
            /\ w % 8 = 0 => d.x = w \div 8
            /\ w % 8 # 0 => d.x = (w \div 8) + 1
            /\ h % 4 = 0 => d.y = h \div 4
            /\ h % 4 # 0 => d.y = (h \div 4) + 1
            /\ d.x * 8 >= w /\ (d.x > 0 => (d.x - 1) * 8 < w)
            /\ d.y * 4 >= h /\ (d.y > 0 => (d.y - 1) * 4 < h)

C11_Witness ==
    /\ unit.fn = "dispach"
    /\ unit.image_size = << 33, 16 >>
    /\ unit.cmds[1].x = 5
    /\ unit.cmds[1].y = 4

(***************************************************************************)
(* C12: for every mip level i in [0, N), get_mip_size(i) is the base       *)
(* width and height each halved i times by integer division, that is       *)
(* (width >> i, height >> i); level N-1 is the base extent shifted right   *)
(* N-1 times.                                                              *)
(***************************************************************************)
Shr(x, n) == x \div Pow2(n)

C12_MipSize ==
    unit.fn = "get_mip_size" =>
        /\ unit.current_mip \in 0 .. BLOOM_MIP_COUNT - 1
        /\ unit.result = << Shr(unit.extent[1], unit.current_mip),
                            Shr(unit.extent[2], unit.current_mip) >>
        /\ unit.current_mip > 0 =>
              unit.result = << get_mip_size(unit.current_mip - 1, unit.extent)[1] \div 2,
                               get_mip_size(unit.current_mip - 1, unit.extent)[2] \div 2 >>
        /\ unit.current_mip = 0 => unit.result = unit.extent

C12_Witness ==
    /\ unit.fn = "get_mip_size"
    /\ unit.current_mip = BLOOM_MIP_COUNT - 1
    /\ unit.extent = << 70, 67 >>
    /\ unit.result = << 1, 1 >>

(***************************************************************************)
(* C13: Image::new with N mip levels creates exactly N mip views, view i   *)
(* (0 <= i < N) starting at mip i and covering N-i levels, plus one        *)
(* default view covering all N levels; dropping the image destroys exactly *)
(* those N+1 views and makes exactly one dealloc call, which precedes the  *)
(* destruction of the image handle.                                        *)
(***************************************************************************)
ViewCreations == { k \in DOMAIN calls : calls[k].call = "create_image_view" }

ViewDestructions == { k \in DOMAIN calls : calls[k].call = "destroy_image_view" }

C13_MipViews ==
    image.image # 0 =>
        LET N == image.subresource_range.level_count
        IN  /\ Len(image.mip_image_views) = N
            /\ Cardinality(ViewCreations) = N + 1
            /\ \A n \in 0 .. N - 1 :
                  \E k \in ViewCreations :
                      /\ calls[k].obj = image.mip_image_views[n + 1]
                      /\ calls[k].image = image.image
                      /\ calls[k].base_mip_level = n
                      /\ calls[k].level_count = N - n
                      /\ \A j \in ViewCreations : calls[j].obj = calls[k].obj => j = k
            /\ \E k \in ViewCreations :
                  /\ calls[k].obj = image.image_view
                  /\ calls[k].base_mip_level = 0
                  /\ calls[k].level_count = N
                  /\ \A n \in 1 .. N : image.mip_image_views[n] # image.image_view
            /\ rpc # "image_dropped" => ViewDestructions = {}
            /\ rpc = "image_dropped" =>
                  /\ Cardinality(ViewDestructions) = N + 1
                  /\ { calls[k].obj : k \in ViewDestructions }
                        = { calls[k].obj : k \in ViewCreations }
                  /\ Cardinality(CallsOf("dealloc", image.image)) = 1
                  /\ Cardinality(CallsOf("destroy_image", image.image)) = 1
                  /\ \A d \in CallsOf("dealloc", image.image),
                        h \in CallsOf("destroy_image", image.image) : d < h
                  /\ \A v \in ViewDestructions,
                        h \in CallsOf("destroy_image", image.image) : v < h

C13_Witness ==
    /\ rpc = "image_dropped"
    /\ ~ image.image_sampler.some
    /\ image.subresource_range.level_count = 7
    /\ \A n \in 0 .. 6 :
          \E k \in ViewCreations :
              calls[k].base_mip_level = n /\ calls[k].level_count = 7 - n
                  /\ calls[k].obj = image.mip_image_views[n + 1]
    /\ Cardinality(ViewDestructions) = 8

(***************************************************************************)
(* C14: write_from_image records, in this order, source to the transfer-   *)
(* source layout, destination to the transfer-destination layout, the      *)
(* copy, source back to its prior layout, destination back to its prior    *)
(* layout; after the call the source is in the layout the caller passed    *)
(* and the destination's current_layout field has its value of before.     *)
(***************************************************************************)
IsLayoutBarrier(c, img, old, new) ==
    /\ c.call = "cmd_pipeline_barrier"
    /\ c.image = img
    /\ c.old_layout = old
    /\ c.new_layout = new

C14_WriteFromImage ==
    rpc = "image_copied" =>
        LET r == LastCalls(5)
            src == src_image.image
            passed == src_image.passed_layout
            prior == src_image.layout_before
        IN  /\ src # image.image
            /\ IsLayoutBarrier(r[1], src, passed, "TRANSFER_SRC_OPTIMAL")
            /\ IsLayoutBarrier(r[2], image.image, prior, "TRANSFER_DST_OPTIMAL")
            /\ r[3].call = "cmd_copy_image"
            /\ r[3].src_image = src
            /\ r[3].dst_image = image.image
            /\ IsLayoutBarrier(r[4], src, "TRANSFER_SRC_OPTIMAL", passed)
            /\ IsLayoutBarrier(r[5], image.image, "TRANSFER_DST_OPTIMAL", prior)
            /\ Cardinality({ k \in DOMAIN calls : calls[k].call = "cmd_copy_image" }) = 1
            /\ Cardinality({ k \in DOMAIN calls :
                               calls[k].call = "cmd_pipeline_barrier"
                                   /\ calls[k].obj = r[3].obj }) = 4
            /\ src_image.layout = passed
            /\ image.current_layout = prior

C14_Witness ==
    /\ rpc = "image_copied"
    /\ src_image.passed_layout = "GENERAL"
    /\ src_image.layout_before = "SHADER_READ_ONLY_OPTIMAL"
    /\ image.current_layout = "SHADER_READ_ONLY_OPTIMAL"
    /\ LastCalls(3)[1].call = "cmd_copy_image"

(***************************************************************************)
(* C15: every staged transfer (Buffer::write_to_vram, read_from_vram,      *)
(* Image::write_to_vram, read_from_vram, change_layout) submits its        *)
(* command buffer to the transfer queue and waits for that queue to be     *)
(* idle before it returns; the staging buffer and the transient command    *)
(* buffer are freed only after the wait, and a download reads the staging  *)
(* buffer only after the wait.                                             *)
(***************************************************************************)
Submissions == { k \in DOMAIN calls : calls[k].call = "queue_submit" }

Waits == { k \in DOMAIN calls : calls[k].call = "queue_wait_idle" }

\* the buffers created for one transfer only: every buffer but the one under test
StagingCreations ==
    { k \in DOMAIN calls : calls[k].call = "create_buffer" /\ calls[k].obj # buffer.buffer }

\* the first wait recorded after call k, 0 when there is none
WaitAfter(k) ==
    IF \E w \in Waits : w > k
    THEN CHOOSE w \in Waits : w > k /\ \A v \in Waits : v > k => w <= v
    ELSE 0

C15_TransferWaitsForQueue ==
    /\ \A k \in Submissions :
          /\ calls[k].queue = "transfer_queue"
          /\ k + 1 \in Waits
          /\ calls[k + 1].queue = "transfer_queue"
          /\ calls[k + 1].obj = calls[k].obj
          /\ \A f \in CallsOf("free_command_buffers", calls[k].obj) : f > k + 1
          /\ CallsOf("free_command_buffers", calls[k].obj) # {}
          /\ \A e \in CallsOf("end_command_buffer", calls[k].obj) : e < k
    /\ Cardinality(Waits) = Cardinality(Submissions)
    /\ \A c \in StagingCreations :
          LET b == calls[c].obj
              w == WaitAfter(c)
          IN  /\ w # 0
              /\ w - 1 \in Submissions
              /\ \A d \in CallsOf("dealloc", b) \cup CallsOf("destroy_buffer", b) : d > w
              /\ CallsOf("dealloc", b) # {} /\ CallsOf("destroy_buffer", b) # {}
              /\ \A r \in CallsOf("read_bytes", b) : r > w
              /\ \A h \in CallsOf("write_bytes", b) : h < w - 1
    /\ rpc \in {"written", "image_written", "image_ready"} => Waits # {}
    /\ rpc \in {"read", "image_read"} =>
          /\ calls[Len(calls) - 2].call = "read_bytes"
          /\ WaitAfter(0) # 0
          /\ \E w \in Waits : w < Len(calls) - 2 /\ \A v \in Waits : v <= w

C15_Witness ==
    /\ rpc = "image_read"
    /\ Cardinality(Waits) = 3
    /\ Cardinality(StagingCreations) = 2
    /\ \E k \in DOMAIN calls : calls[k].call = "cmd_copy_image_to_buffer"

(***************************************************************************)
(* C16: for a DescriptorSet created by new and extended by any number of   *)
(* create_another_set calls, update_descriptor_set(s, b, ...) issues       *)
(* exactly one descriptor write, addressed to set s and binding b, whose   *)
(* descriptor type is the type the layout of set s declares for binding b. *)
(***************************************************************************)
\* the type the layout of set s declares for binding b
DeclaredType(d, s, b) ==
    LET layout == d.descriptor_set_layout[s + 1]
    IN  layout[CHOOSE n \in DOMAIN layout : layout[n].binding = b].descriptor_type

C16_UpdateWritesDeclaredType ==
    descriptor.state \in {"updated", "panicked"} =>
        /\ descriptor.state = "updated"
        /\ Len(descriptor.writes) = 1
        /\ descriptor.writes[1].dst_set = descriptor.descriptor_set[descriptor.dst_set + 1]
        /\ descriptor.writes[1].dst_binding = descriptor.dst_binding
        /\ descriptor.writes[1].descriptor_type =
              DeclaredType(descriptor, descriptor.dst_set, descriptor.dst_binding)

(***************************************************************************)
(* C17: Device::new picks the first physical device, in enumeration order, *)
(* that has a queue family with a non-zero queue count supporting          *)
(* graphics, compute and transfer together, uses the lowest-index such     *)
(* family of that device, and panics when no enumerated device qualifies.  *)
(***************************************************************************)
Qualifies(queue_family) ==
    /\ queue_family.queue_count # 0
    /\ {"GRAPHICS", "COMPUTE", "TRANSFER"} \subseteq queue_family.queue_flags

QualifyingFamilies(device) == { f \in DOMAIN device : Qualifies(device[f]) }

QualifyingDevices(devices) == { d \in DOMAIN devices : QualifyingFamilies(devices[d]) # {} }

C17_FirstSuitableDevice ==
    unit.fn = "Device::new" =>
        LET ds == QualifyingDevices(unit.physical_devices)
        IN  /\ ds = {} <=> unit.outcome = "panic"
            /\ unit.outcome = "ok" =>
                  /\ unit.physical_device \in ds
                  /\ \A d \in ds : unit.physical_device <= d
                  /\ unit.queue_family_index + 1
                        \in QualifyingFamilies(unit.physical_devices[unit.physical_device])
                  /\ \A f \in QualifyingFamilies(unit.physical_devices[unit.physical_device]) :
                        unit.queue_family_index + 1 <= f

C17_Witness ==
    /\ unit.fn = "Device::new"
    /\ unit.outcome = "ok"
    /\ unit.physical_device = 2
    /\ unit.queue_family_index = 1
    /\ Len(unit.physical_devices[1]) = 2

(***************************************************************************)
(* C19: recreate(extent) builds the new pipeline from the retained builder *)
(* state with every field unchanged except the first viewport and the      *)
(* first scissor, which are the new extent at origin (0,0) with depth      *)
(* range 0..1; the new pipeline retains that builder state, so recreate    *)
(* applies again.                                                          *)
(***************************************************************************)
SameButFirst(new, old) ==
    /\ DOMAIN new = DOMAIN old
    /\ \A n \in DOMAIN new : n # 1 => new[n] = old[n]

C19_RecreateKeepsBuilder ==
    pipeline.state = "recreated" =>
        LET old == pipeline.self.builder.val
            new == pipeline.object
        IN  /\ new.create_info.subpass = old.subpass_index
            /\ SameButFirst(new.create_info.viewports, old.viewports)
            /\ SameButFirst(new.create_info.scissors, old.scissors)
            /\ new.create_info.viewports[1] =
                  [ x |-> 0, y |-> 0,
                    width |-> pipeline.extent.width, height |-> pipeline.extent.height,
                    min_depth |-> 0, max_depth |-> 1 ]
            /\ new.create_info.scissors[1] =
                  [ offset |-> [ x |-> 0, y |-> 0 ], extent |-> pipeline.extent ]
            /\ new.builder.some
            /\ new.builder.val.viewports = new.create_info.viewports
            /\ new.builder.val.scissors = new.create_info.scissors
            /\ new.builder.val.subpass_index = new.create_info.subpass

C19_Witness ==
    /\ pipeline.state = "recreated"
    /\ pipeline.recreations = 2
    /\ Len(pipeline.object.builder.val.viewports) = 2
    /\ Len(pipeline.object.builder.val.scissors) = 2
    /\ pipeline.self.builder.val.viewports[1] # pipeline.object.builder.val.viewports[1]
    /\ pipeline.object.builder.val.viewports[2].x = 1

(***************************************************************************)
(* C18: at teardown the allocator is cleaned up before the logical device  *)
(* is destroyed, and the logical device is destroyed only after every      *)
(* buffer, image, descriptor set and pool, pipeline, shader module,        *)
(* swapchain object, fence, semaphore, command pool and render pass        *)
(* created from it has been destroyed.                                     *)
(***************************************************************************)
CreatedFromDevice ==
    { "destroy_buffer", "destroy_image", "destroy_image_view", "destroy_sampler",
      "dealloc", "destroy_descriptor_set_layout", "destroy_descriptor_pool",
      "destroy_pipeline", "destroy_pipeline_layout", "destroy_shader_module",
      "destroy_swapchain", "destroy_framebuffer", "destroy_fence", "destroy_semaphore",
      "destroy_command_pool", "destroy_render_pass" }

GpuCalls(call) == { k \in DOMAIN gpu_calls : gpu_calls[k].call = call }

C18_DeviceDestroyedLast ==
    app.state = "returned" =>
        /\ Cardinality(GpuCalls("destroy_device")) = 1
        /\ Cardinality(GpuCalls("cleanup")) = 1
        /\ \A d \in GpuCalls("destroy_device") :
              /\ \A c \in GpuCalls("cleanup") : c < d
              /\ \A k \in DOMAIN gpu_calls :
                    gpu_calls[k].call \in CreatedFromDevice => k < d
        /\ \A call \in CreatedFromDevice : GpuCalls(call) # {}
        /\ \A p \in DOMAIN engine.graphics_pipelines :
              Call("destroy_pipeline", engine.graphics_pipelines[p].pipeline)
                  \in { gpu_calls[k] : k \in DOMAIN gpu_calls }

C18_Witness ==
    /\ app.state = "returned"
    /\ Len(engine.graphics_pipelines) = 2
    /\ engine.pipelines_created = 4
    /\ GpuCalls("destroy_device") # {}

(***************************************************************************)
(* C20: from the handling of a Resized event with non-zero width and       *)
(* height until window_resized has completed no frame is recorded or       *)
(* submitted, nor while the window is minimized; window_resized waits for  *)
(* the device to be idle before it destroys anything, and a frame rendered *)
(* after a resize finds the swapchain, the depth image and every graphics  *)
(* pipeline rebuilt at the new extent.                                     *)
(***************************************************************************)
FrameJustRendered ==
    /\ app.state = "running"
    /\ app.control_flow = "Poll"
    /\ app.next_event = "NewEvents"
    /\ app.rendered

BuiltAt(e, extent) ==
    /\ e.swapchain_extent = extent
    /\ e.depth_stencil_image = [ some |-> TRUE, val |-> extent ]
    /\ \A p \in DOMAIN e.graphics_pipelines :
          LET info == e.graphics_pipelines[p].create_info
          IN  /\ info.viewports[1].width = extent.width
              /\ info.viewports[1].height = extent.height
              /\ info.scissors[1].extent = extent
              /\ info.subpass = p - 1

C20_NoFrameDuringResize ==
    /\ FrameJustRendered =>
          /\ ~ app.pending
          /\ ~ app.window_minimized
          /\ app.requested.some => BuiltAt(engine, app.requested.val)
    /\ app.state = "running" =>
          \A w \in GpuCalls("device_wait_idle") :
          \A k \in DOMAIN gpu_calls :
              gpu_calls[k].call \in CreatedFromDevice => w < k
    /\ (app.state = "running" /\ app.requested.some /\ ~ app.pending) =>
          /\ GpuCalls("device_wait_idle") # {}
          /\ BuiltAt(engine, app.requested.val)

C20_Witness ==
    /\ FrameJustRendered
    /\ app.resizes = 2
    /\ app.requested.some
    /\ engine.swapchain_extent = [ width |-> 2, height |-> 1 ]
    /\ Len(engine.graphics_pipelines) = 2
    /\ GpuCalls("destroy_swapchain") # {}

(***************************************************************************)
(* Observers of the calls of render_func.                                  *)
(***************************************************************************)
FrameCalls(call) == { k \in DOMAIN frame_calls : frame_calls[k].call = call }

CallNames == [ k \in DOMAIN frame_calls |-> frame_calls[k].call ]

\* commands that only bloom records
IsBloomCommand(c) ==
    \/ c.op \in { "pipeline_barrier", "dispatch", "push_constants" }
    \/ c.op \in { "bind_pipeline", "bind_descriptor_sets" } /\ c.point = "COMPUTE"

\* command k lies inside a render pass
InsideRenderPass(k) ==
    \E b \in Indices("begin_render_pass") :
        /\ b < k
        /\ \A e \in Indices("end_render_pass") : ~ (b < e /\ e <= k)

\* the command buffer of the frame is in the recording state
Recording ==
    /\ FrameCalls("begin_command_buffer") # {}
    /\ \A k \in FrameCalls("begin_command_buffer") : frame_calls[k].result = "ok"
    /\ FrameCalls("end_command_buffer") = {}

FrameComplete == pc = "idle" /\ frame_calls # << >>

(***************************************************************************)
(* C21: render_func acquires a swapchain image, records the graphics       *)
(* render pass, calls bloom, records the GUI render pass, ends the command *)
(* buffer, submits and presents, in this order; bloom records only between *)
(* the end of the graphics render pass and the begin of the GUI render     *)
(* pass, never begins, ends or submits the command buffer, and leaves it   *)
(* in the recording state.                                                 *)
(***************************************************************************)
C21_RenderFuncOrder ==
    /\ FrameComplete =>
          /\ CallNames = << "acquire_next_image", "allocate_command_buffers",
                            "begin_command_buffer", "bloom", "end_command_buffer",
                            "wait_for_fences", "reset_fences", "queue_submit",
                            "queue_present", "wait_for_fences", "reset_fences",
                            "device_wait_idle", "free_command_buffers" >>
          /\ \A k \in FrameCalls("bloom") :
                /\ cmds[1].op = "begin_render_pass" /\ cmds[1].pass = "renderpass"
                /\ cmds[frame_calls[k].recorded].op = "end_render_pass"
                /\ Indices("begin_render_pass") \cap 2 .. frame_calls[k].recorded = {}
          /\ \A k \in FrameCalls("end_command_buffer") :
                /\ frame_calls[k].recorded = Len(cmds)
                /\ cmds[Len(cmds)].op = "end_render_pass"
          /\ \E g \in Indices("begin_render_pass") :
                /\ cmds[g].pass = "ui_renderpass"
                /\ \A k \in DOMAIN cmds : IsBloomCommand(cmds[k]) => k < g
                /\ Indices("begin_render_pass") = { 1, g }
    /\ \A k \in DOMAIN cmds :
          IsBloomCommand(cmds[k]) =>
              /\ ~ InsideRenderPass(k)
              /\ \E b \in FrameCalls("bloom") : frame_calls[b].recorded < k
    /\ (InBloomPasses \/ BloomReturned) =>
          /\ frame_calls[Len(frame_calls)].call = "bloom"
          /\ Recording
          /\ FrameCalls("queue_submit") = {}

C21_Witness ==
    /\ FrameComplete
    /\ frame = 2
    /\ Cardinality(Indices("dispatch")) = 3 * BLOOM_MIP_COUNT

(***************************************************************************)
(* C24: within one call of render_func, the framebuffer of the graphics    *)
(* render pass (and of the GUI render pass), the swapchain image that      *)
(* bloom processes and the image index that is presented are all the index *)
(* that acquire_next_image returned for this frame.                        *)
(***************************************************************************)
\* the index acquire_next_image returned to the frame being rendered
Acquired(idx) ==
    \E k \in FrameCalls("acquire_next_image") :
        frame_calls[k].result = "ok" /\ frame_calls[k].arg = idx

C24_SameImage ==
    \A idx \in 0 .. NumImages - 1 :
        Acquired(idx) =>
            /\ \A k \in Indices("begin_render_pass") : cmds[k].framebuffer = idx
            /\ \A k \in FrameCalls("bloom") : frame_calls[k].arg = idx
            /\ \A k \in DOMAIN cmds :
                  (cmds[k].op = "pipeline_barrier" /\ cmds[k].image # << >>) =>
                      cmds[k].image[1].image = idx
            /\ \A k \in FrameCalls("queue_present") : frame_calls[k].arg = idx

(***************************************************************************)
(* C28: within a frame, every pass that touches the frame image declares   *)
(* as the image's starting layout the layout in which the preceding pass   *)
(* left it, along the chain graphics render pass, bloom entry barrier,     *)
(* bloom exit barrier, GUI render pass, presentation; the image is in the  *)
(* presentation layout when it is presented.                               *)
(***************************************************************************)
\* command k declares a starting layout for swapchain image img
Touches(k, img) ==
    \/ cmds[k].op = "begin_render_pass" /\ cmds[k].framebuffer = img
    \/ /\ cmds[k].op = "pipeline_barrier"
       /\ cmds[k].image # << >>
       /\ cmds[k].image[1].image = img

StartLayout(k) ==
    IF cmds[k].op = "begin_render_pass" THEN cmds[k].initial_layout
    ELSE cmds[k].image[1].old_layout

LeftLayout(k) ==
    IF cmds[k].op = "begin_render_pass" THEN cmds[k].final_layout
    ELSE cmds[k].image[1].new_layout

C28_LayoutChain ==
    /\ \A img \in 0 .. NumImages - 1 :
          \A j, k \in DOMAIN cmds :
              ( /\ j < k
                /\ Touches(j, img)
                /\ Touches(k, img)
                /\ \A m \in j + 1 .. k - 1 : ~ Touches(m, img) ) =>
                    StartLayout(k) = LeftLayout(j)
    /\ \A k \in FrameCalls("queue_present") :
          swapchain_layout[frame_calls[k].arg] = "PRESENT_SRC_KHR"

(***************************************************************************)
(* C22: if a driver call of a frame (image acquisition, fence wait, fence  *)
(* reset, queue submission, presentation) or of a staged transfer          *)
(* (allocation, memory bind, submission, queue-wait-idle) reports an       *)
(* error, the process aborts at that call: no later step of the operation  *)
(* is executed and nothing is retried.                                     *)
(***************************************************************************)
Failed(c) == "result" \in DOMAIN c /\ c.result = "error"

\* calls made by destructors while the panic unwinds, not by the operation
IsDropGlue(c) == c.call \in { "dealloc", "destroy_buffer" }

C22_AbortAtFailedCall ==
    /\ \A k \in DOMAIN frame_calls :
          Failed(frame_calls[k]) =>
              /\ k = Len(frame_calls)
              /\ pc = "aborted"
              /\ Len(cmds) = frame_calls[k].recorded
    /\ pc = "aborted" => Failed(frame_calls[Len(frame_calls)])
    /\ \A k \in DOMAIN calls :
          Failed(calls[k]) =>
              /\ rpc = "aborted"
              /\ \A j \in k + 1 .. Len(calls) :
                    /\ IsDropGlue(calls[j])
                    /\ calls[j].obj # buffer.buffer
              /\ \A j \in 1 .. k - 1 : ~ Failed(calls[j])
    /\ rpc = "aborted" => \E k \in DOMAIN calls : Failed(calls[k])

\* the second frame fails at presentation
C22_Witness ==
    /\ pc = "aborted"
    /\ frame = 1
    /\ frame_calls[Len(frame_calls)].call = "queue_present"
    /\ FrameCalls("queue_submit") # {}

(***************************************************************************)
(* C23: read_spv succeeds exactly when the file length is a non-zero       *)
(* multiple of 4 and its first 32-bit word is the SPIR-V magic number      *)
(* 0x07230203 in either byte order; byte-swapped input is accepted by      *)
(* swapping every word, so a successful result always starts with the      *)
(* magic number in native order.  Every other input is a fatal abort of    *)
(* ShaderModule::new before any shader module is created.                  *)
(***************************************************************************)
\* the file starts with the magic number, written in one byte order or the other
StartsWithMagic(bytes) ==
    /\ Len(bytes) >= 4
    /\ SubSeq(bytes, 1, 4) \in { MagicLittle, MagicBig }

C23_ReadSpv ==
    unit.fn = "ShaderModule::new" =>
        LET accepted ==
                /\ unit.file.some
                /\ Len(unit.file.val) # 0
                /\ Len(unit.file.val) % 4 = 0
                /\ StartsWithMagic(unit.file.val)
        IN  /\ accepted <=> unit.outcome = "ok"
            /\ ~ accepted => unit.outcome = "panic" /\ unit.calls = << >>
            /\ accepted =>
                  LET bytes == unit.file.val
                      code == unit.calls[1].code
                      \* the byte order the file was written in
                      big == SubSeq(bytes, 1, 4) = MagicBig
                  IN  /\ Len(unit.calls) = 1
                      /\ unit.calls[1].call = "create_shader_module"
                      /\ Len(code) * 4 = Len(bytes)
                      /\ code[1] = MAGIC_NUMBER
                      /\ \A k \in DOMAIN code :
                            code[k] = IF big
                                      THEN bytes[4 * k - 3] * 16777216 + bytes[4 * k - 2] * 65536
                                               + bytes[4 * k - 1] * 256 + bytes[4 * k]
                                      ELSE bytes[4 * k] * 16777216 + bytes[4 * k - 1] * 65536
                                               + bytes[4 * k - 2] * 256 + bytes[4 * k - 3]

\* a two-word file in the byte order that is not the machine's
C23_Witness ==
    /\ unit.fn = "ShaderModule::new"
    /\ unit.outcome = "ok"
    /\ ~ unit.big_endian
    /\ unit.file.val = MagicBig \o << 2, 7, 7, 2 >>
    /\ unit.calls[1].code = << MAGIC_NUMBER, 34014978 >>

(***************************************************************************)
(* C25: every barrier or copy that an Image operation (change_layout,      *)
(* write_to_vram, read_from_vram, write_from_image) records names, for     *)
(* each image it touches, the layout that image holds at that point of the *)
(* command stream: a barrier's old layout and a copy's layout argument are *)
(* the layout left by the last transition recorded for that image, for any *)
(* sequence of these operations on the same image.                         *)
(***************************************************************************)
\* the layout image img holds when call k is recorded: the Image starts in its
\* initial layout, the source of write_from_image in the layout the caller names
LayoutAt(k, img) ==
    LayoutAfter(SubSeq(calls, 1, k - 1), img,
                IF img = image.image THEN image.initial_layout ELSE src_image.passed_layout)

C25_RecordedLayouts ==
    \A k \in DOMAIN calls :
        /\ calls[k].call = "cmd_pipeline_barrier" =>
              calls[k].old_layout = LayoutAt(k, calls[k].image)
        /\ calls[k].call \in { "cmd_copy_buffer_to_image", "cmd_copy_image_to_buffer" } =>
              calls[k].image_layout = LayoutAt(k, calls[k].image)
        /\ calls[k].call = "cmd_copy_image" =>
              /\ calls[k].src_image_layout = LayoutAt(k, calls[k].src_image)
              /\ calls[k].dst_image_layout = LayoutAt(k, calls[k].dst_image)

(***************************************************************************)
(* C29: every command buffer that a Buffer or Image operation obtains from *)
(* the command builder is ended, submitted, waited for and freed before    *)
(* the operation returns; after any sequence of change_layout,             *)
(* write_to_vram, read_from_vram and write_from_image calls, no command    *)
(* buffer allocated by these operations is left allocated or in the        *)
(* recording state.                                                        *)
(***************************************************************************)
C29_CommandBuffersReturned ==
    \A k \in DOMAIN calls :
        calls[k].call = "allocate_command_buffers" =>
            LET cb == calls[k].obj
            IN  \E e \in CallsOf("end_command_buffer", cb),
                   s \in CallsOf("queue_submit", cb),
                   w \in CallsOf("queue_wait_idle", cb),
                   f \in CallsOf("free_command_buffers", cb) :
                    k < e /\ e < s /\ s < w /\ w < f

(***************************************************************************)
(* C30: after any sequence of change_layout, write_to_vram, read_from_vram *)
(* and write_from_image calls on an Image, its current_layout field is the *)
(* new layout of the last layout transition recorded for that image        *)
(* through these operations (the initial layout if none was recorded); no  *)
(* other operation of the Image changes the field.                         *)
(***************************************************************************)
\* the transitions recorded for the image under test
ImageTransitions ==
    { k \in DOMAIN calls : calls[k].call = "cmd_pipeline_barrier" /\ calls[k].image = image.image }

C30_CurrentLayout ==
    image # NoImage =>
        IF ImageTransitions = {}
        THEN image.current_layout = image.initial_layout
        ELSE \E k \in ImageTransitions :
                /\ \A j \in ImageTransitions : j <= k
                /\ image.current_layout = calls[k].new_layout

\* change_layout, write_to_vram and read_from_vram in turn, the sampler set
C30_Witness ==
    /\ rpc = "image_read"
    /\ Cardinality(ImageTransitions) = 5
    /\ \E k \in ImageTransitions : calls[k].new_layout = "SHADER_READ_ONLY_OPTIMAL"
    /\ image.current_layout = "GENERAL"
    /\ image.image_sampler.some

(***************************************************************************)
(* C27: for a selected queue family with queue count q, logical-device     *)
(* creation requests at most min(4, q) queues, and each of the graphics,   *)
(* compute, transfer and present queue handles is fetched with a queue     *)
(* index smaller than the number of queues requested.                      *)
(***************************************************************************)
C27_QueuesWithinFamily ==
    unit.fn = "Device::create_logical_device" =>
        LET q == unit.queue_family_props.queue_count
            d == unit.device
        IN  /\ d.queue_count <= (IF q < 4 THEN q ELSE 4)
            /\ \A idx \in { d.graphic_queue, d.compute_queue, d.transfer_queue,
                            d.present_queue } : idx < d.queue_count

(***************************************************************************)
(* C26: for every DescriptorSet object the program builds, the number of   *)
(* sets allocated from its pool never exceeds the pool's maximum set       *)
(* count, and for each descriptor type the total descriptor count declared *)
(* by all layouts allocated from that pool never exceeds the count the     *)
(* pool was created with for that type.                                    *)
(***************************************************************************)
\* the sum of the descriptor counts of the entries of a list that have type t
RECURSIVE CountOf(_, _, _)
CountOf(entries, t, rank) ==
    IF rank = 0 THEN 0
    ELSE CountOf(entries, t, rank - 1)
         + (IF entries[rank].ty = t THEN entries[rank].descriptor_count ELSE 0)

\* the bindings of a layout as typed counts
TypedCounts(bindings) ==
    [ k \in DOMAIN bindings |->
        [ ty |-> bindings[k].descriptor_type,
          descriptor_count |-> bindings[k].descriptor_count ] ]

\* descriptors of type t declared by the layouts of the first rank sets
RECURSIVE DeclaredCount(_, _)
DeclaredCount(t, rank) ==
    IF rank = 0 THEN 0
    ELSE DeclaredCount(t, rank - 1)
         + CountOf(TypedCounts(descriptor.descriptor_set_layout[rank]), t,
                   Len(descriptor.descriptor_set_layout[rank]))

C26_PoolCoversSets ==
    descriptor.state \in { "uniform_descriptor", "image_descriptor" } =>
        /\ Len(descriptor.descriptor_set) <= descriptor.descriptor_pool.max_sets
        /\ \A t \in DescriptorTypes :
              DeclaredCount(t, Len(descriptor.descriptor_set_layout))
                  <= CountOf(descriptor.descriptor_pool.pool_sizes, t,
                             Len(descriptor.descriptor_pool.pool_sizes))

(***************************************************************************)
(* C40: window_resized replaces every graphics pipeline by its recreated   *)
(* counterpart and preserves both the number and the order of the          *)
(* pipelines: the pipeline at position k after the call is the recreation  *)
(* of the pipeline that was at position k before the call, for any number  *)
(* of pipelines (zero, odd or even).                                       *)
(***************************************************************************)
\* new is old recreated at extent: a new handle, the builder of old with the
\* first viewport and the first scissor replaced
IsRecreationOf(new, old, extent) ==
    /\ new.create_info.subpass = old.builder.val.subpass_index
    /\ SameButFirst(new.create_info.viewports, old.builder.val.viewports)
    /\ SameButFirst(new.create_info.scissors, old.builder.val.scissors)
    /\ new.create_info.viewports[1].width = extent.width
    /\ new.create_info.viewports[1].height = extent.height
    /\ new.create_info.scissors[1].extent = extent

C40_PipelinesKeepOrder ==
    unit.fn = "window_resized" =>
        /\ Len(unit.graphics_pipelines) = Len(unit.self.graphics_pipelines)
        /\ \A k \in DOMAIN unit.graphics_pipelines :
              /\ IsRecreationOf(unit.graphics_pipelines[k], unit.self.graphics_pipelines[k],
                                unit.self.new_extent)
              /\ \A j \in DOMAIN unit.self.graphics_pipelines :
                    unit.graphics_pipelines[k].pipeline # unit.self.graphics_pipelines[j].pipeline

\* three pipelines, resized to another extent
C40_Witness ==
    /\ unit.fn = "window_resized"
    /\ Len(unit.self.graphics_pipelines) = 3
    /\ unit.self.new_extent = [ width |-> 2, height |-> 1 ]
    /\ unit.self.graphics_pipelines[1].create_info.viewports[1].width = 1
    /\ unit.graphics_pipelines[3].create_info.subpass = 2

(***************************************************************************)
(* C38: if a Resized event with non-zero width and height is handled and   *)
(* no further Resized event follows, then after at most two subsequent     *)
(* NewEvents events window_resized has run exactly once for that extent,   *)
(* the resized flag is false, old_extent equals new_extent, and frame      *)
(* rendering resumes on the next redraw unless the window is minimized.    *)
(***************************************************************************)
\* the last Resized event had a non-zero size and k or more NewEvents followed
NewEventsAfterResize(k) ==
    /\ app.state = "running"
    /\ app.control_flow = "Poll"
    /\ app.last_resized = "non-zero"
    /\ app.new_events >= k

C38_ResizeSettles ==
    /\ NewEventsAfterResize(2) =>
          /\ app.window_resized = 1
          /\ engine.resized = FALSE
          /\ engine.old_extent = engine.new_extent
          /\ engine.new_extent = app.requested.val
          /\ BuiltAt(engine, app.requested.val)
          /\ app.next_event = "NewEvents" => (app.rendered <=> ~ engine.minimized)
    /\ NewEventsAfterResize(0) => app.window_resized <= 1

\* a resize to another extent, settled by the second NewEvents, a frame rendered
C38_Witness ==
    /\ NewEventsAfterResize(2)
    /\ app.new_events = 2
    /\ app.next_event = "NewEvents"
    /\ app.rendered
    /\ engine.swapchain_extent = [ width |-> 2, height |-> 1 ]
    /\ Len(engine.graphics_pipelines) = 2

(***************************************************************************)
(* C31: at every frame, after any sequence of frames and swapchain         *)
(* recreations, the image index used to select the per-image fence, the    *)
(* framebuffers and the swapchain image view is smaller than the number of *)
(* fences, of framebuffers and of swapchain image views that exist.        *)
(***************************************************************************)
\* render_func has copied current_image and selects objects with it
FrameInProgress == render.pc \in { "acquired", "wait_acquired", "wait_submitted", "panicked" }

C31_IndexWithinLists ==
    FrameInProgress =>
        /\ render.current_image < Len(fences)
        /\ render.current_image < Len(swapchain.swapchain_framebuffers)
        /\ render.current_image < Len(swapchain.swapchain_hdr_framebuffers)
        /\ render.current_image_save < Len(swapchain.swapchain_image_views)

(***************************************************************************)
(* C32: in render_func a fence is handed to image acquisition or to queue  *)
(* submission only while it is unsignaled and has no signal pending, every *)
(* fence wait is on a fence that has a signal pending or already           *)
(* delivered, and all fences are unsignaled with nothing pending when      *)
(* render_func returns; for every frame, the first one and the first one   *)
(* after a resize included.                                                *)
(***************************************************************************)
\* the fence calls that hand the fence over to be signaled
HandsOver == { "acquire_next_image", "queue_submit" }

C32_FenceSafety ==
    /\ render.pc \notin { "none" } =>
          \A k \in DOMAIN render.fence_ops :
             LET o == render.fence_ops[k] IN
             /\ o.op \in HandsOver => ~ o.signaled /\ ~ o.pending
             /\ o.op = "wait_for_fences" => o.signaled \/ o.pending
    /\ render.pc \in { "wait_acquired", "wait_submitted" } =>
          LET f == fences[render.current_image + 1] IN f.signaled \/ f.pending
    /\ render.pc = "idle" =>
          \A k \in DOMAIN fences : ~ fences[k].signaled /\ ~ fences[k].pending

\* render_func is in its first and in its second wait_for_fences
AtFirstWait == render.pc = "wait_acquired"

AtSecondWait == render.pc = "wait_submitted"

C32_FenceProtocol ==
    /\ [] C32_FenceSafety
    /\ AtFirstWait ~> AtSecondWait
    /\ AtSecondWait ~> (render.pc = "idle")

\* the first frame after a resize has returned, after both waits
C32_Witness ==
    /\ render.pc = "idle"
    /\ render.resizes = 1
    /\ render.frames = 1
    /\ Len(render.fence_ops) = 4
    /\ render.fence_ops[3].op = "queue_submit"
    /\ render.fence_ops[4].pending

(***************************************************************************)
(* C33: whenever a frame is recorded, the base extent of the three         *)
(* intermediate bloom images is half the current surface resolution        *)
(* (integer division in each dimension), so the PREFILTER, DOWNSAMPLE and  *)
(* UPSAMPLE dispatch extents and the APPLY dispatch extent describe the    *)
(* same frame size, after a window resize as well as before.               *)
(***************************************************************************)
C33_BloomExtentIsHalf ==
    (render.pc # "none" /\ render.recorded.some) =>
        /\ render.recorded.val.bloom.width = render.recorded.val.apply.width \div 2
        /\ render.recorded.val.bloom.height = render.recorded.val.apply.height \div 2

(***************************************************************************)
(* C34: after Swapchain::recreate the swapchain has been created from the  *)
(* stored creation parameters with only the image extent replaced by the   *)
(* new surface resolution; every previous image view, framebuffer, the     *)
(* sampler and the old swapchain were destroyed before the new swapchain   *)
(* was created; and the lists of image views, HDR framebuffers and         *)
(* framebuffers each hold exactly one entry per swapchain image.           *)
(***************************************************************************)
\* the last swapchain was made by recreate
Recreated == render.pc # "none" /\ driver.previous # NoSwapchain

\* positions of a call on an object in the calls of recreate
PositionsOf(call, obj) ==
    { k \in DOMAIN driver.calls : driver.calls[k] = Call(call, obj) }

\* the call was made exactly once, and before the new swapchain was created
OnceBeforeCreation(call, obj) ==
    /\ Cardinality(PositionsOf(call, obj)) = 1
    /\ \A k \in PositionsOf(call, obj) :
          \A c \in PositionsOf("create_swapchain", swapchain.swapchain) : k < c

C34_Recreate ==
    Recreated =>
        /\ driver.created_with =
              [ driver.previous.swapchain_create_info EXCEPT
                  !.image_extent = render.surface_resolution ]
        /\ swapchain.swapchain_create_info = driver.created_with
        /\ Cardinality(PositionsOf("create_swapchain", swapchain.swapchain)) = 1
        /\ OnceBeforeCreation("destroy_swapchain", driver.previous.swapchain)
        /\ OnceBeforeCreation("destroy_sampler", driver.previous.swapchain_image_sampler)
        /\ \A k \in DOMAIN driver.previous.swapchain_image_views :
              /\ OnceBeforeCreation("destroy_image_view",
                                    driver.previous.swapchain_image_views[k])
              /\ OnceBeforeCreation("destroy_framebuffer",
                                    driver.previous.swapchain_hdr_framebuffers[k])
              /\ OnceBeforeCreation("destroy_framebuffer",
                                    driver.previous.swapchain_framebuffers[k])
        /\ Len(swapchain.swapchain_image_views) = Len(swapchain.swapchain_images)
        /\ Len(swapchain.swapchain_hdr_framebuffers) = Len(swapchain.swapchain_images)
        /\ Len(swapchain.swapchain_framebuffers) = Len(swapchain.swapchain_images)

\* a recreation to another extent for which the driver returned one image more
C34_Witness ==
    /\ Recreated
    /\ Len(driver.previous.swapchain_images) = NumImages
    /\ Len(swapchain.swapchain_images) = NumImages + 1
    /\ swapchain.swapchain_extent # driver.previous.swapchain_extent
    /\ Len(driver.calls) > 0

(***************************************************************************)
(* C36: after PushConstant::new or any sequence of set_data calls, the     *)
(* payload is exactly the bytes of the most recently supplied value (no    *)
(* byte of an earlier payload survives) and the declared range is          *)
(* unchanged; every payload that bloom passes to a push-constant command   *)
(* has exactly the byte length declared by the range (4 bytes).            *)
(***************************************************************************)
\* the bytes are those of the values of data, four per value, and no more
IsPayloadOf(bytes, data) ==
    /\ Len(bytes) = 4 * Len(data)
    /\ \A k \in DOMAIN data : FromBytes(SubSeq(bytes, 4 * k - 3, 4 * k)) = data[k]

C36_PayloadIsLastValue ==
    /\ unit.fn = "set_data" =>
          /\ IsPayloadOf(unit.self.data, unit.first)
          /\ IsPayloadOf(unit.result.data, unit.data)
          /\ unit.self.range = [ offset |-> 0, size |-> unit.size, stage_flags |-> "COMPUTE" ]
          /\ unit.result.range = unit.self.range
    /\ push # NoPush =>
          /\ IsPayloadOf(push.data, << bloom_data >>)
          /\ push.range = [ offset |-> 0, size |-> 4, stage_flags |-> "COMPUTE" ]
          /\ \A k \in Indices("push_constants") : Len(cmds[k].data) = push.range.size

\* a payload of two values replaced by a payload of one
C36_Witness ==
    /\ unit.fn = "set_data"
    /\ Len(unit.self.data) = 8
    /\ unit.data = << Word(ApplyFields) >>
    /\ unit.result.data = ToBytes(Word(ApplyFields))

(***************************************************************************)
(* C35: within one bloom call the compute pipeline and the descriptor set  *)
(* are each bound exactly once, before the first dispatch; every dispatch  *)
(* is preceded by exactly one push-constant update carrying that           *)
(* dispatch's addressing word; and between the first and the last dispatch *)
(* nothing other than the push constant is rebound or updated.             *)
(***************************************************************************)
\* the commands `op` recorded for the compute bind point
ComputeBinds(op) == { k \in Indices(op) : cmds[k].point = "COMPUTE" }

\* the push-constant updates recorded after the dispatch before k and before k
PushesFor(k) ==
    { j \in Indices("push_constants") :
        /\ j < k
        /\ \A d \in Indices("dispatch") : d < k => d < j }

C35_BoundOncePushedPerDispatch ==
    LET dispatches == Ordered(Indices("dispatch")) IN
    dispatches # << >> =>
        /\ Cardinality(ComputeBinds("bind_pipeline")) = 1
        /\ Cardinality(ComputeBinds("bind_descriptor_sets")) = 1
        /\ \A k \in ComputeBinds("bind_pipeline") \cup ComputeBinds("bind_descriptor_sets") :
              k < dispatches[1]
        /\ \A rank \in DOMAIN dispatches :
              /\ Cardinality(PushesFor(dispatches[rank])) = 1
              /\ \A j \in PushesFor(dispatches[rank]) :
                    FromBytes(cmds[j].data) = Word(operands[rank])
        /\ \A k \in dispatches[1] .. dispatches[Len(dispatches)] :
              \/ cmds[k].op \in { "dispatch", "push_constants" }
              \/ IsComputeBarrier(cmds[k])

\* bloom has returned: 21 dispatches, the last one APPLY with its own word
C35_Witness ==
    /\ BloomReturned
    /\ Cardinality(Indices("dispatch")) = 3 * BLOOM_MIP_COUNT
    /\ Cardinality(ComputeBinds("bind_pipeline")) = 1
    /\ \E k \in Indices("dispatch") :
          /\ \A d \in Indices("dispatch") : d <= k
          /\ \A j \in PushesFor(k) : FromBytes(cmds[j].data) = Word(ApplyFields)

(***************************************************************************)
(* C39: every addressing word recorded by bloom refers only to             *)
(* descriptor-array elements that exist: the destination index is at most  *)
(* 3*N (the storage array has 3*N+1 elements, the last one being the frame *)
(* image), the source image index is at most 3 (the sampled arrays have 4  *)
(* elements), and the source mip is at most N-1.                           *)
(***************************************************************************)
\* index (counted from 0) is an element of the array
Exists(index, array) == index + 1 \in DOMAIN array

C39_WordsAddressExistingElements ==
    \A k \in Indices("push_constants") :
       LET w == Decode(FromBytes(cmds[k].data))
           outputs == output_image_descr_info(current_image_save)
           inputs == input_image_descr_info(current_image_save)
       IN  /\ Len(outputs) = 3 * BLOOM_MIP_COUNT + 1
           /\ Len(inputs) = 4
           /\ outputs[Len(outputs)].image = 3
           /\ w.out <= 3 * BLOOM_MIP_COUNT
           /\ Exists(w.out, outputs)
           /\ w.in <= 3
           /\ Exists(w.in, inputs)
           /\ Exists(w.bloom, inputs)
           /\ w.lod <= BLOOM_MIP_COUNT - 1
           /\ w.lod < inputs[w.in + 1].mips

\* bloom has returned: APPLY wrote the last storage element from source 3, and
\* a DOWNSAMPLE pass read the last mip
C39_Witness ==
    /\ BloomReturned
    /\ \E k \in Indices("push_constants") :
          LET w == Decode(FromBytes(cmds[k].data))
          IN  w.out = 3 * BLOOM_MIP_COUNT /\ w.in = 3
    /\ \E k \in Indices("push_constants") :
          Decode(FromBytes(cmds[k].data)).lod = BLOOM_MIP_COUNT - 1

(***************************************************************************)
(* C37: every allocator operation (alloc in Buffer::new and Image::new,    *)
(* dealloc in the Buffer and Image drops, cleanup in the Device drop) runs *)
(* while holding the allocator lock and releases it before returning, and  *)
(* no operation tries to take the lock while it is already held by the     *)
(* same thread, including when a staging buffer is created and dropped     *)
(* inside another resource's transfer operation; allocator operations are  *)
(* therefore serialized and never self-deadlock.                           *)
(***************************************************************************)
\* the operation the thread was in has returned
OperationReturned == allocator.state \in { "ready", "dropped" } /\ allocator.todo = << >>

C37_AllocatorLock ==
    allocator.state # "none" =>
        /\ \A k \in DOMAIN allocator.ops :
              /\ allocator.ops[k].op \in AllocatorCalls => allocator.ops[k].held
              /\ allocator.ops[k].op # "lock"
        /\ OperationReturned => ~ allocator.locked
        /\ allocator.state \notin { "deadlock", "panicked" }
        /\ allocator.locked => allocator.todo # << >>

\* a transfer on an image has returned: its staging buffer was allocated and
\* freed under the lock, and the lock is free
C37_Witness ==
    /\ OperationReturned
    /\ allocator.operation = "write_to_vram"
    /\ allocator.images = 1
    /\ allocator.buffers = 0
    /\ allocator.ops = << [ op |-> "alloc", held |-> TRUE ], [ op |-> "dealloc", held |-> TRUE ] >>
    /\ ~ allocator.locked

====
